---- MODULE Spec2Model ----
(***************************************************************************)
(* Authorization engine of pos-shop-system: the tenant context resolver    *)
(* (tenantMiddleware), the DB-backed hierarchical rbac, the permission-name *)
(* rbac, the static rbac and the central error handler.                     *)
(*                                                                         *)
(* Strings are sequences of one-character strings, so that toLowerCase,     *)
(* toUpperCase, trim, split and concatenation are computed, not assumed.    *)
(* A JavaScript value that may be undefined, a string or a number is a      *)
(* record [t, s, n].                                                        *)
(***************************************************************************)
EXTENDS Integers, Sequences, FiniteSets

\* ------------------------------------------------------------------ bounds
MaxRoles == 3
MaxFetch == 5

\* notify calls followed
MaxCalls == 3

\* login requests followed for one account
MaxAttempts == 6

\* lockout periods the clock runs through
MaxTicks == 1

\* ------------------------------------------------------------ JS strings
LowerAlpha ==
  <<"a","b","c","d","e","f","g","h","i","j","k","l","m",
    "n","o","p","q","r","s","t","u","v","w","x","y","z">>

UpperAlpha ==
  <<"A","B","C","D","E","F","G","H","I","J","K","L","M",
    "N","O","P","Q","R","S","T","U","V","W","X","Y","Z">>

ToLowerChar(c) ==
  IF \E i \in 1..26 : UpperAlpha[i] = c
  THEN LowerAlpha[CHOOSE i \in 1..26 : UpperAlpha[i] = c]
  ELSE c

ToUpperChar(c) ==
  IF \E i \in 1..26 : LowerAlpha[i] = c
  THEN UpperAlpha[CHOOSE i \in 1..26 : LowerAlpha[i] = c]
  ELSE c

toLowerCase(s) == [i \in 1..Len(s) |-> ToLowerChar(s[i])]

toUpperCase(s) == [i \in 1..Len(s) |-> ToUpperChar(s[i])]

RECURSIVE trimStart(_)
trimStart(s) ==
  IF s # <<>> /\ Head(s) = " " THEN trimStart(Tail(s)) ELSE s

RECURSIVE trimEnd(_)
trimEnd(s) ==
  IF s # <<>> /\ s[Len(s)] = " " THEN trimEnd(SubSeq(s, 1, Len(s) - 1)) ELSE s

trim(s) == trimEnd(trimStart(s))

\* s.split('.') : the labels between dots, empty labels kept
RECURSIVE splitDot(_, _)
splitDot(s, cur) ==
  IF s = <<>> THEN <<cur>>
  ELSE IF Head(s) = "." THEN <<cur>> \o splitDot(Tail(s), <<>>)
  ELSE splitDot(Tail(s), Append(cur, Head(s)))

\* ------------------------------------------------------------- JS values
Undef == [t |-> "undef", s |-> <<>>, n |-> 0]

Str(s) == [t |-> "str", s |-> s, n |-> 0]

Num(n) == [t |-> "num", s |-> <<>>, n |-> n]

False == [t |-> "bool", s |-> <<>>, n |-> 0]

Truthy(v) == (v.t = "str" /\ v.s # <<>>) \/ (v.t = "num" /\ v.n # 0)

\* a || b
Or(a, b) == IF Truthy(a) THEN a ELSE b

Digits == <<"0","1","2","3","4","5","6","7","8","9">>

\* String(v) for the values that reach it (strings, one-digit numbers, false)
JsString(v) ==
  IF v.t = "str" THEN v.s
  ELSE IF v.t = "bool" THEN <<"f","a","l","s","e">>
  ELSE <<Digits[v.n + 1]>>

\* ---------------------------------------------------------- string names
owner == <<"o","w","n","e","r">>
admin == <<"a","d","m","i","n">>
Admin == <<"A","d","m","i","n">>
manager == <<"m","a","n","a","g","e","r">>
Manager == <<"M","a","n","a","g","e","r">>
MANAGER == <<"M","A","N","A","G","E","R">>
director == <<"d","i","r","e","c","t","o","r">>
vp == <<"v","p">>
cashier == <<"c","a","s","h","i","e","r">>
invView == <<"i","n","v",":","v","i","e","w">>
InvView == <<"I","n","v",":","V","i","e","w">>
prodCreate == <<"p","r","o","d",":","c","r","e","a","t","e">>
ProdCreate == <<"P","r","o","d",":","C","r","e","a","t","e">>
product == <<"p","r","o","d","u","c","t">>
Product == <<"P","r","o","d","u","c","t">>
POST == <<"P","O","S","T">>
PUT == <<"P","U","T">>
DELETE == <<"D","E","L","E","T","E">>
GET == <<"G","E","T">>
apiProducts == <<"/","a","p","i","/","p","r","o","d","u","c","t","s">>
pathId == <<"/",":","i","d">>
post == <<"p","o","s","t">>
colon == <<":">>
pathP == <<"/","p">>
path1 == <<"/","1">>
slash == <<"/">>

\* s.includes(sub)
Includes(s, sub) ==
  \E i \in 1..(Len(s) + 1) :
    /\ i + Len(sub) - 1 <= Len(s)
    /\ SubSeq(s, i, i + Len(sub) - 1) = sub

\* the elements of an array
Elems(seq) == {seq[i] : i \in 1..Len(seq)}

\* arr.map(x => String(x).toLowerCase())
MapLower(seq) == [i \in 1..Len(seq) |-> toLowerCase(seq[i])]

\* --------------------------------------------------------------- catalog
RoleIds == 1..MaxRoles

\* two tenants
Tenants == <<5, 6>>

TenantA == Tenants[1]

TenantB == Tenants[2]

\* Role rows carry the columns of the Role table: id, name, parentRoleId,
\* tenantId.  A layout fixes names and tenants; parent links are free.
LayoutName(layout, i) ==
  IF layout = 1
  THEN (IF i = 1 THEN Manager ELSE IF i = 2 THEN director ELSE IF i = 3 THEN vp ELSE cashier)
  ELSE (IF i = 1 THEN Manager ELSE IF i = 2 THEN Admin ELSE IF i = 3 THEN manager ELSE cashier)

LayoutTenant(layout, i) ==
  IF layout = 2 /\ i = 3 THEN TenantB ELSE TenantA

Layouts == {1, 2}

RoleRow(i, nm, par, ten) ==
  [id |-> i, name |-> nm, parentRoleId |-> par, tenantId |-> ten]

NullRole == [id |-> 0, name |-> <<>>, parentRoleId |-> 0, tenantId |-> 0]

\* parent links: a chain 1 -> 2 -> ... -> k, the same chain closed into a
\* cycle k -> 1, or the chain with its top pointing back at role 2 (or at
\* itself when k = 1)
ParentShapes == {"chain", "cycle", "lasso"} \X RoleIds

ShapeParent(shape, i) ==
  LET kind == shape[1]
      k == shape[2]
  IN IF i < k THEN i + 1
     ELSE IF i > k \/ kind = "chain" THEN 0
     ELSE IF kind = "cycle" THEN 1
     ELSE IF k >= 2 THEN 2 ELSE 1

RoleTables ==
  { [i \in RoleIds |-> RoleRow(i, LayoutName(l, i), ShapeParent(sh, i), LayoutTenant(l, i))] :
      l \in Layouts, sh \in ParentShapes }

\* Permission rows: names collide across tenants up to letter case
PermissionTbl ==
  <<[id |-> 1, name |-> InvView, tenantId |-> TenantA],
    [id |-> 2, name |-> prodCreate, tenantId |-> TenantA],
    [id |-> 3, name |-> invView, tenantId |-> TenantB]>>

PermIds == 1..Len(PermissionTbl)

RolePermRow(i, r, p, ten) ==
  [id |-> i, roleId |-> r, permissionId |-> p, tenantId |-> ten]

\* RolePermission rows: Manager holds prod:create; one more grant is free
RolePermTables ==
  { <<RolePermRow(1, 1, 2, TenantA),
      RolePermRow(2, r, p, PermissionTbl[p].tenantId)>> :
      r \in RoleIds, p \in {1, 3} }

\* instants for the validity window of an assignment: one before the
\* decision, the time of the decision, one after it; 0 is a null column
Times == <<10, 20, 30>>

Earlier == Times[1]

Now == Times[2]

Later == Times[3]

UserRoleRow(i, u, r, org, ten, from, to) ==
  [id |-> i, userId |-> u, roleId |-> r, orgUnitId |-> org, tenantId |-> ten,
   validFrom |-> from, validTo |-> to]

\* UserRole rows: user 1 holds role 1 only; user 2 holds role 2 in two org
\* units (the second one not yet valid) and role 3 in an assignment whose
\* validTo has passed; each assignment lives in the tenant of its role
UserRoleTblOf(roles) ==
  <<UserRoleRow(1, 1, 1, 0, roles[1].tenantId, 0, 0),
    UserRoleRow(2, 2, 2, 7, roles[2].tenantId, Earlier, Later),
    UserRoleRow(3, 2, 2, 8, roles[2].tenantId, Later, 0),
    UserRoleRow(4, 2, 3, 0, roles[3].tenantId, 0, Earlier)>>

\* ------------------------------------------------------- requests, options
\* req.user : absent, or the principal attached by authentication;
\* permissions is an array (permsKind "array"), one string or absent
NoUser ==
  [present |-> FALSE, id |-> 0, role |-> Undef, tenantId |-> Undef,
   orgUnitId |-> 0, permsKind |-> "none", permissions |-> <<>>]

User(i, r, ten) ==
  [present |-> TRUE, id |-> i, role |-> r, tenantId |-> ten,
   orgUnitId |-> 0, permsKind |-> "none", permissions |-> <<>>]

UserWithPerms(i, r, ten, kind, ps) ==
  [present |-> TRUE, id |-> i, role |-> r, tenantId |-> ten,
   orgUnitId |-> 0, permsKind |-> kind, permissions |-> ps]

\* the x-tenant-id request header: own is hasOwnProperty(req.headers, ...)
NoHeader == [own |-> FALSE, value |-> <<>>]

Header(v) == [own |-> TRUE, value |-> v]

Req(u, ten, org, resrc, bu) ==
  [user |-> u, tenantId |-> ten, orgUnitId |-> org, resource |-> resrc,
   method |-> POST, baseUrl |-> bu, path |-> slash, isOwner |-> FALSE,
   header |-> NoHeader, hostname |-> Undef,
   body |-> <<>>, params |-> <<>>, query |-> <<>>,
   authorization |-> "none", token |-> NoUser]

\* options of the rbac middlewares; maps are arrays of <<key, list>> entries
DefaultDenyMessage == "Forbidden: Insufficient role or permission"

Options(rs, ps, rps, aps, fz, msg, st) ==
  [roles |-> rs, permissions |-> ps, resourcePermissions |-> rps,
   actionPermissions |-> aps, freezeUser |-> fz, denyMessage |-> msg,
   denyStatus |-> st, given |-> {"denyMessage", "denyStatus"},
   allowedTenants |-> <<>>, restricted |-> FALSE,
   resolver |-> "none", resolved |-> Undef]

\* the same options with denyMessage and denyStatus left out by the caller
Defaulted(o) == [o EXCEPT !.given = {}]

\* lines 54-55: the defaults of the destructuring
DefaultDenyStatus == 403

\* a handler that answers every Deny with the default status
denyStatusFixed(o) == DefaultDenyStatus

denyStatus(o) ==
  IF "denyStatus" \in o.given THEN o.denyStatus ELSE DefaultDenyStatus

denyMessage(o) ==
  IF "denyMessage" \in o.given THEN o.denyMessage ELSE DefaultDenyMessage

NoOptions == Defaulted(Options(<<>>, <<>>, <<>>, <<>>, TRUE, "", 0))

DbOptionSet ==
  { NoOptions,
    Defaulted(Options(<<>>, <<InvView>>, <<>>, <<>>, TRUE, "", 0)),
    Defaulted(Options(<<MANAGER>>, <<>>, <<>>, <<>>, FALSE, "", 0)),
    Options(<<>>, <<>>, <<<<Product, <<ProdCreate>>>>>>, <<>>, TRUE, "No access", 404),
    Defaulted(Options(<<>>, <<>>, <<>>,
            << <<POST \o colon \o pathP, <<prodCreate>>>>,
               <<post \o colon \o path1, <<prodCreate>>>> >>,
            TRUE, "", 0)) }

DbUsers ==
  { NoUser,
    User(1, Undef, Num(TenantA)),
    User(1, Str(cashier), Undef),
    User(2, Str(manager), Num(TenantA)) }

DbRequests ==
  { Req(ux[1], ten, ux[2], rb[1], rb[2]) :
      ux \in (DbUsers \X {0}) \cup {<<User(2, Str(manager), Num(TenantA)), 7>>},
      ten \in {Undef, Num(TenantA), Num(TenantB), Str(<<"5">>)},
      rb \in {<<Undef, pathP>>, <<Str(product), pathP>>, <<Undef, path1>>} }

\* ------------------------------------------------------ persistence layer
\* obj[name] of a row object: undefined (falsy, 0) when the row has no such
\* property
Prop(obj, name) == IF name \in DOMAIN obj THEN obj[name] ELSE 0

\* prisma.role.findUnique({ where: { id } }) : the row or null
FindRole(roles, i) == IF i \in DOMAIN roles THEN roles[i] ELSE NullRole

\* an Int column compared with a query argument; the client rejects an
\* argument that is not a number before the query is sent
IntArgValid(v) == v.t = "num"

\* the sub-sequence of the rows that satisfy a filter, in id order
RECURSIVE SelectRows(_, _)
SelectRows(rows, keep) ==
  IF rows = <<>> THEN <<>>
  ELSE IF Head(rows).id \in keep
       THEN <<Head(rows)>> \o SelectRows(Tail(rows), keep)
       ELSE SelectRows(Tail(rows), keep)

\* prisma.userRole.findMany({ where: { userId, tenantId, orgUnitId? } })
UserRolesWhere(rows, uid, ten, org) ==
  SelectRows(rows,
    { rows[i].id : i \in { j \in 1..Len(rows) :
         /\ rows[j].userId = uid
         /\ rows[j].tenantId = ten
         /\ (org # 0 => rows[j].orgUnitId = org) } })

\* prisma.rolePermission.findMany({ where: { roleId: { in }, tenantId } })
RolePermsWhere(rows, roleIds, ten) ==
  SelectRows(rows,
    { rows[i].id : i \in { j \in 1..Len(rows) :
         /\ rows[j].roleId \in roleIds
         /\ rows[j].tenantId = ten } })

\* ------------------------------------------------------- DB-backed rbac
Has(all, i) == \E k \in 1..Len(all) : all[k].id = i

\* a walk that follows parentRoleId and has no visited-id guard
collectNaive(role, all) ==
  IF role.id = 0 THEN [all |-> all, fetch |-> 0]
  ELSE [all |-> IF Has(all, role.id) THEN all ELSE Append(all, role),
        fetch |-> role.parentRoleId]

\* collectRoleAndParents(role): the Map after the call's synchronous part
\* and the id of the parent it goes on to fetch (0: none)
collectRoleAndParents(role, all) ==
  IF role.id = 0 \/ Has(all, role.id) THEN [all |-> all, fetch |-> 0]
  ELSE [all |-> Append(all, role), fetch |-> Prop(role, "parentId")]

\* userRoleNames
RoleNames(all) == { toLowerCase(all[k].name) : k \in 1..Len(all) }

ShortcutRole(names) == owner \in names \/ admin \in names

normalizedRoles(o) == Elems(MapLower(o.roles)) \cup {owner}

normalizedPerms(o) == MapLower(o.permissions)

normalizedResourcePerms(o) ==
  [i \in 1..Len(o.resourcePermissions) |->
     <<toLowerCase(o.resourcePermissions[i][1]),
       MapLower(o.resourcePermissions[i][2])>>]

normalizedActionPerms(o) ==
  [i \in 1..Len(o.actionPermissions) |->
     <<toUpperCase(o.actionPermissions[i][1]),
       MapLower(o.actionPermissions[i][2])>>]

\* obj[key] of a normalized map: a later entry with the same key wins
HasKey(map, key) == \E i \in 1..Len(map) : map[i][1] = key

Lookup(map, key) ==
  LET last == CHOOSE i \in 1..Len(map) :
                /\ map[i][1] = key
                /\ \A j \in (i + 1)..Len(map) : map[j][1] # key
  IN map[last][2]

SomeIn(list, perms) == \E i \in 1..Len(list) : list[i] \in perms

hasRole(o, names) == \E r \in names : r \in normalizedRoles(o)

hasPerm(o, perms) ==
  IF Len(normalizedPerms(o)) > 0 THEN SomeIn(normalizedPerms(o), perms) ELSE FALSE

hasResourcePerm(o, r, perms) ==
  LET map == normalizedResourcePerms(o)
      resourceKey == toLowerCase(JsString(r.resource))
  IN /\ Len(map) > 0
     /\ Truthy(r.resource)
     /\ HasKey(map, resourceKey)
     /\ SomeIn(Lookup(map, resourceKey), perms)

hasActionPerm(o, r, perms) ==
  LET map == normalizedActionPerms(o)
      actionKey == toUpperCase(r.method) \o colon \o r.baseUrl \o r.path
      baseActionKey == toUpperCase(r.method) \o colon \o r.baseUrl
  IN /\ Len(map) > 0
     /\ IF HasKey(map, actionKey)
        THEN SomeIn(Lookup(map, actionKey), perms)
        ELSE /\ HasKey(map, baseActionKey)
             /\ SomeIn(Lookup(map, baseActionKey), perms)


\* ----------------------------------------------------------------- state
VARIABLES
  roleTbl,       \* Role table
  rolePermTbl,   \* RolePermission table
  userRoleTbl,   \* UserRole table
  mw,            \* the middleware handling the current request
  req,           \* the request
  opts,          \* the options the middleware was built with
  pc,            \* position of the handler
  tenantId,      \* rbac: const tenantId
  orgUnitId,     \* rbac: const orgUnitId
  pending,       \* rbac: userRoles not yet walked
  fetchId,       \* rbac: id of the parent being fetched
  allRoles,      \* rbac: the Map allRoles, in insertion order
  userPerms,     \* rbac: aggregated permission names
  reads,         \* persistence reads issued for the request, per table
  failed,        \* a persistence read of the request has failed
  frozen,        \* Object.freeze(user) has run
  outcome,       \* what the middleware did: response or continuation
  nexts,         \* calls of next made by the invocation of the middleware
  sends,         \* responses sent by the invocation of the middleware
  err,           \* the error handed to next(err)
  reported,      \* errors captured by the error-reporting sink
  tenantContext, \* req.tenantContext
  events,        \* log events emitted while handling the request
  listener,      \* auditLog has registered its res.on('finish') callback
  response,      \* the response the route handler has sent
  finished,      \* the response has been handed off ('finish' was emitted)
  auditTbl,      \* AuditLog table
  round,         \* which evaluation of the request this is (1 or 2)
  first,         \* what the first evaluation of the request came to
  evals,         \* rbac evaluations in flight side by side, each with its locals
  saleTbl,       \* Sale table
  inventoryTbl,  \* Inventory table
  historyTbl,    \* InventoryHistory table
  syncs,         \* offline sync requests in flight, each with its locals
  auditFile,     \* logs/audit.log: the entries written by writeAuditLog
  notices,       \* notifications handed to the logger and the sockets
  calls,         \* the notify calls made so far: function and the user named
  account,       \* the User row of the account: lockout columns
  now,           \* the clock, in minutes
  logins,        \* login requests in flight, each with its locals
  tally          \* logins started; wrong passwords since the last success

vars ==
  <<roleTbl, rolePermTbl, userRoleTbl, mw, req, opts, pc, tenantId, orgUnitId,
    pending, fetchId, allRoles, userPerms, reads, failed, frozen, outcome,
    nexts, sends, err, reported, tenantContext, events, listener, response, finished,
    auditTbl, round, first, evals, saleTbl, inventoryTbl, historyTbl, syncs,
    auditFile, notices, calls, account, now, logins, tally>>

catalog == <<roleTbl, rolePermTbl, userRoleTbl>>

input == <<mw, opts>>

trail == <<listener, response, finished, auditTbl>>

history == <<round, first>>

\* the state of the single request the middlewares are followed on
single ==
  <<mw, req, opts, pc, tenantId, orgUnitId, pending, fetchId, allRoles,
    userPerms, reads, failed, frozen, outcome, nexts, sends, err, reported,
    tenantContext,
    events, listener, response, finished, auditTbl, round, first>>

\* the state of the other parts of the system
offline == <<saleTbl, inventoryTbl, historyTbl, syncs>>

notification == <<auditFile, notices, calls>>

lockout == <<account, now, logins, tally>>

apart == <<evals, offline, notification, lockout>>

\* what a step of an rbac evaluation side by side leaves alone
besideEvals == <<catalog, single, offline, notification, lockout>>

\* what a step of an offline sync leaves alone
besideOffline == <<catalog, single, evals, notification, lockout>>

\* what a notify call leaves alone
besideNotification == <<catalog, single, evals, offline, lockout>>

\* what a step of a login leaves alone
besideLockout == <<catalog, single, evals, offline, notification>>

dbLocals == <<tenantId, orgUnitId, pending, fetchId, allRoles, userPerms>>

NoReads == [userRole |-> 0, role |-> 0, rolePermission |-> 0]

NoOutcome == [kind |-> "none", status |-> 0, message |-> ""]

Respond(st, msg) == [kind |-> "res", status |-> st, message |-> msg]

Continue == [kind |-> "next", status |-> 0, message |-> ""]

ContinueWithError == [kind |-> "nextErr", status |-> 0, message |-> ""]

NoError == [name |-> "", status |-> 0, isJoi |-> FALSE, type |-> "", message |-> ""]

NoContext == [set |-> FALSE, tenantId |-> <<>>, source |-> "null", isOwner |-> FALSE]

CatalogInit ==
  /\ roleTbl \in RoleTables
  /\ rolePermTbl \in RolePermTables
  /\ userRoleTbl = UserRoleTblOf(roleTbl)

SingleInit ==
  /\ mw = "none"
  /\ req = Req(NoUser, Undef, 0, Undef, pathP)
  /\ opts = NoOptions
  /\ pc = "idle"
  /\ tenantId = Undef
  /\ orgUnitId = 0
  /\ pending = <<>>
  /\ fetchId = 0
  /\ allRoles = <<>>
  /\ userPerms = {}
  /\ reads = NoReads
  /\ failed = FALSE
  /\ frozen = FALSE
  /\ outcome = NoOutcome
  /\ nexts = 0
  /\ sends = 0
  /\ err = NoError
  /\ reported = 0
  /\ tenantContext = NoContext
  /\ events = <<>>
  /\ listener = FALSE
  /\ response = NoOutcome
  /\ finished = FALSE
  /\ auditTbl = <<>>
  /\ round = 1
  /\ first = [outcome |-> NoOutcome, failed |-> FALSE]

\* no evaluation is in flight side by side
EvalsIdle == evals = <<>>

\* no sync request is in flight and nothing has been sold or adjusted
OfflineIdle ==
  /\ saleTbl = <<>>
  /\ inventoryTbl = <<>>
  /\ historyTbl = <<>>
  /\ syncs = <<>>

\* nothing has been notified
NotificationInit ==
  /\ auditFile = <<>>
  /\ notices = <<>>
  /\ calls = <<>>

NoLogin ==
  [pc |-> "idle", password |-> "none",
   user |-> [failedLoginAttempts |-> 0, isLocked |-> FALSE, lockedUntil |-> 0],
   status |-> 0, faulted |-> FALSE, lockedUntil |-> 0, readAt |-> 0]

\* an account with no failed login, no login in flight
LockoutInit ==
  /\ account = [failedLoginAttempts |-> 0, isLocked |-> FALSE, lockedUntil |-> 0]
  /\ now = 0
  /\ logins = <<NoLogin, NoLogin>>
  /\ tally = [started |-> 0, wrongs |-> 0]

\* the start of all the parts that stand apart from the single request
ApartInit == EvalsIdle /\ OfflineIdle /\ NotificationInit /\ LockoutInit

Init == CatalogInit /\ SingleInit /\ ApartInit

verdict == <<outcome, nexts, sends>>

\* a handler that goes on to the continuation after it has answered
TerminalFallsThrough(o) ==
  /\ outcome' = o
  /\ nexts' = nexts + 1
  /\ sends' = sends + (IF o.kind = "res" THEN 1 ELSE 0)

\* return next(), return next(err), return res.status(..).json(..): the one
\* call a path of a handler ends with
Terminal(o) ==
  /\ outcome' = o
  /\ nexts' = nexts + (IF o.kind \in {"next", "nextErr"} THEN 1 ELSE 0)
  /\ sends' = sends + (IF o.kind = "res" THEN 1 ELSE 0)

\* the middlewares that read no table meet their requests on one catalog
OneCatalog ==
  /\ roleTbl = (CHOOSE t \in RoleTables : TRUE)
  /\ rolePermTbl = (CHOOSE t \in RolePermTables : TRUE)

\* the start of the parts that read none of the three tables
OneCatalogInit == OneCatalog /\ userRoleTbl = UserRoleTblOf(roleTbl)

\* a request arrives at one of the middlewares
Arrive(m, r, o) ==
  /\ pc = "idle"
  /\ mw' = m
  /\ req' = r
  /\ opts' = o
  /\ pc' = "start"
  /\ UNCHANGED <<apart, catalog, trail, history, dbLocals, reads, failed, frozen, verdict, err,
                 reported, tenantContext, events>>

\* ------------------------------------------------- DB-backed rbac, handler
\* a catch block that answers a failed read like a missing permission
DbCatchAsDeny ==
  /\ failed' = TRUE
  /\ events' = Append(events, "RBAC: Access denied")
  /\ Terminal(Respond(denyStatus(opts), denyMessage(opts)))
  /\ pc' = "done"

\* the catch block of the handler
DbCatch ==
  /\ failed' = TRUE
  /\ events' = Append(events, "RBAC middleware error")
  /\ Terminal(Respond(500, "Internal server error (RBAC)"))
  /\ pc' = "done"

\* a handler that takes every request as authenticated
UnauthenticatedNever(r) == FALSE

\* lines 72-84: the principal and the tenant context
Unauthenticated(r) == ~r.user.present

DbTenantOf(r) == Or(r.tenantId, r.user.tenantId)

DbStart ==
  /\ mw = "db" /\ pc = "start"
  /\ IF Unauthenticated(req)
     THEN /\ events' = Append(events, "RBAC: No user found on request")
          /\ Terminal(Respond(401, "Unauthorized: User not authenticated"))
          /\ pc' = "done"
          /\ UNCHANGED <<tenantId, orgUnitId>>
     ELSE /\ tenantId' = DbTenantOf(req)
          /\ orgUnitId' = IF req.orgUnitId # 0 THEN req.orgUnitId
                          ELSE req.user.orgUnitId
          /\ IF ~Truthy(tenantId')
             THEN /\ events' = Append(events, "RBAC: No tenantId found")
                  /\ Terminal(Respond(400, "Bad request: tenantId required"))
                  /\ pc' = "done"
             ELSE /\ pc' = "userRoles"
                  /\ UNCHANGED <<verdict, events>>
  /\ UNCHANGED <<apart, catalog, trail, history, input, req, pending, fetchId, allRoles, userPerms,
                 reads, failed, frozen, err, reported, tenantContext>>

\* a read that takes the assignments out of the table (a delete for a find)
DbUserRolesTaking ==
  /\ mw = "db" /\ pc = "userRoles"
  /\ reads' = [reads EXCEPT !.userRole = @ + 1]
  /\ \E fail \in BOOLEAN :
       IF fail \/ ~IntArgValid(tenantId)
       THEN DbCatch /\ UNCHANGED <<pending, userRoleTbl>>
       ELSE /\ pending' = UserRolesWhere(userRoleTbl, req.user.id, tenantId.n, orgUnitId)
            /\ userRoleTbl' = SelectRows(userRoleTbl,
                 { userRoleTbl[i].id : i \in 1..Len(userRoleTbl) }
                   \ { pending'[k].id : k \in 1..Len(pending') })
            /\ pc' = "walk"
            /\ UNCHANGED <<failed, verdict, events>>
  /\ UNCHANGED <<apart, roleTbl, rolePermTbl, trail, history, input, req, tenantId,
                 orgUnitId, fetchId, allRoles, userPerms, frozen, err, reported,
                 tenantContext>>

\* lines 94-101: the UserRole read
DbUserRoles ==
  /\ mw = "db" /\ pc = "userRoles"
  /\ reads' = [reads EXCEPT !.userRole = @ + 1]
  /\ \E fail \in BOOLEAN :
       IF fail \/ ~IntArgValid(tenantId)
       THEN DbCatch /\ UNCHANGED pending
       ELSE /\ pending' = UserRolesWhere(userRoleTbl, req.user.id, tenantId.n, orgUnitId)
            /\ pc' = "walk"
            /\ UNCHANGED <<failed, verdict, events>>
  /\ UNCHANGED <<apart, catalog, trail, history, input, req, tenantId, orgUnitId, fetchId, allRoles,
                 userPerms, frozen, err, reported, tenantContext>>

\* lines 105-120: the loop over userRoles with the walk up the parents of
\* each role (one parent read per step), then the owner/admin shortcut
DbWalk ==
  /\ mw = "db" /\ pc \in {"walk", "parent"}
  /\ IF pc = "parent"
     THEN \* lines 110-111: the parent read, then the call on its result
          /\ reads.role < MaxFetch
          /\ reads' = [reads EXCEPT !.role = @ + 1]
          /\ \E fail \in BOOLEAN :
               IF fail
               THEN DbCatch /\ UNCHANGED <<allRoles, fetchId>>
               ELSE LET c == collectRoleAndParents(FindRole(roleTbl, fetchId), allRoles)
                    IN /\ allRoles' = c.all
                       /\ fetchId' = c.fetch
                       /\ pc' = IF c.fetch # 0 THEN "parent" ELSE "walk"
                       /\ UNCHANGED <<failed, verdict, events>>
          /\ UNCHANGED pending
     ELSE IF pending # <<>>
     THEN \* lines 114-116: the next assignment
          LET c == collectRoleAndParents(FindRole(roleTbl, Head(pending).roleId), allRoles)
          IN /\ allRoles' = c.all
             /\ pending' = Tail(pending)
             /\ fetchId' = c.fetch
             /\ pc' = IF c.fetch # 0 THEN "parent" ELSE "walk"
             /\ UNCHANGED <<verdict, reads, failed, events>>
     ELSE \* lines 117-120: the shortcut
          /\ IF ShortcutRole(RoleNames(allRoles))
             THEN Terminal(Continue) /\ pc' = "done"
             ELSE pc' = "rolePerms" /\ UNCHANGED verdict
          /\ UNCHANGED <<pending, fetchId, allRoles, reads, failed, events>>
  /\ UNCHANGED <<apart, catalog, trail, history, input, req, tenantId, orgUnitId, userPerms, frozen,
                 err, reported, tenantContext>>

\* line 131: the distinct lower-cased names of the granted permissions
PermNames(rows) ==
  { toLowerCase(PermissionTbl[rows[i].permissionId].name) : i \in 1..Len(rows) }

RoleIdsOf(all) == { all[k].id : k \in 1..Len(all) }

\* lines 134-156: the four checks
DbAllowed(o, r, names, perms) ==
  \/ hasRole(o, names)
  \/ hasPerm(o, perms)
  \/ hasResourcePerm(o, r, perms)
  \/ hasActionPerm(o, r, perms)

\* lines 123-169: the RolePermission read and the verdict
DbRolePerms ==
  /\ mw = "db" /\ pc = "rolePerms"
  /\ reads' = [reads EXCEPT !.rolePermission = @ + 1]
  /\ \E fail \in BOOLEAN :
       IF fail
       THEN DbCatch /\ UNCHANGED <<userPerms, frozen>>
       ELSE /\ userPerms' = PermNames(RolePermsWhere(rolePermTbl, RoleIdsOf(allRoles), tenantId.n))
            /\ IF DbAllowed(opts, req, RoleNames(allRoles), userPerms')
               THEN /\ frozen' = opts.freezeUser
                    /\ Terminal(Continue)
                    /\ UNCHANGED events
               ELSE /\ events' = Append(events, "RBAC: Access denied")
                    /\ Terminal(Respond(denyStatus(opts), denyMessage(opts)))
                    /\ UNCHANGED frozen
            /\ pc' = "done"
            /\ UNCHANGED failed
  /\ UNCHANGED <<apart, catalog, trail, history, input, req, tenantId, orgUnitId, pending, fetchId,
                 allRoles, err, reported, tenantContext>>

\* the same request is put to the middleware once more: a new invocation of
\* the handler, with fresh locals, on the same request and user objects
DbAgain ==
  /\ mw = "db" /\ pc = "done" /\ round = 1
  /\ round' = 2
  /\ first' = [outcome |-> outcome, failed |-> failed]
  /\ pc' = "start"
  /\ tenantId' = Undef
  /\ orgUnitId' = 0
  /\ pending' = <<>>
  /\ fetchId' = 0
  /\ allRoles' = <<>>
  /\ userPerms' = {}
  /\ reads' = NoReads
  /\ failed' = FALSE
  /\ outcome' = NoOutcome /\ nexts' = 0 /\ sends' = 0
  /\ events' = <<>>
  /\ UNCHANGED <<apart, catalog, trail, input, req, frozen, err, reported, tenantContext>>

DbArrive == \E r \in DbRequests, o \in DbOptionSet : Arrive("db", r, o)

\* ------------------------------------------------- central error handler
\* the errors a failing persistence read throws: none carries a status
PrismaErrors ==
  { [name |-> nm, status |-> 0, isJoi |-> FALSE, type |-> "", message |-> "db"] :
      nm \in {"PrismaClientKnownRequestError", "PrismaClientInitializationError",
              "PrismaClientValidationError"} }

\* errorHandler: the status of the response
ErrorStatus(e) ==
  IF e.isJoi THEN 400
  ELSE IF e.name = "UnauthorizedError" THEN 401
  ELSE IF e.name = "ForbiddenError" THEN 403
  ELSE IF e.name = "NotFoundError" THEN 404
  ELSE IF e.type = "entity.too.large" THEN 413
  ELSE IF e.type = "entity.parse.failed" THEN 400
  ELSE IF e.status # 0 THEN e.status ELSE 500

\* errorHandler: the message of the response
ErrorMessage(e) ==
  IF e.isJoi THEN "Validation error"
  ELSE IF e.name = "UnauthorizedError" THEN "Authentication failed"
  ELSE IF e.name = "ForbiddenError" THEN "You do not have permission to perform this action."
  ELSE IF e.name = "NotFoundError" THEN (IF e.message # "" THEN e.message ELSE "Resource not found")
  ELSE IF e.type = "entity.too.large" THEN "Payload too large"
  ELSE IF e.type = "entity.parse.failed" THEN "Malformed JSON"
  ELSE IF e.message # "" THEN e.message ELSE "Internal Server Error"

\* errorHandler(err, req, res, next), reached through next(err)
errorHandler ==
  /\ pc = "error"
  /\ reported' = reported + 1
  /\ outcome' = [kind |-> "nextErr", status |-> ErrorStatus(err),
                 message |-> ErrorMessage(err)]
  /\ pc' = "done"
  /\ UNCHANGED <<nexts, sends, apart, catalog, trail, history, input, req, dbLocals, reads, failed, frozen, err,
                 tenantContext, events>>

\* ------------------------------------------------- permission-name rbac
permissionName(o) == o.permissions[1]

PermOptions(nm) == Options(<<>>, <<nm>>, <<>>, <<>>, FALSE, "", 403)

PermUsers ==
  { NoUser,
    User(2, Str(manager), Num(TenantA)),
    User(2, Str(owner), Num(TenantA)),
    User(1, Str(admin), Num(TenantA)),
    User(1, Undef, Num(TenantA)),
    User(0, Str(manager), Num(TenantA)) }

\* what a request carries: a product, or login credentials with a token in
\* the query
PermPayloads ==
  { [body |-> << <<"name", Str(<<"t">>)>>, <<"sku", Undef>> >>, query |-> <<>>],
    [body |-> << <<"email", Str(<<"a">>)>>, <<"password", Str(<<"p","w">>)>> >>,
     query |-> << <<"token", Str(<<"s">>)>> >>] }

PermRequests ==
  { [Req(u, ten, 0, Undef, pathP) EXCEPT !.isOwner = io, !.body = pl.body,
                                         !.query = pl.query] :
      u \in PermUsers,
      ten \in {Undef, Num(TenantA), Num(TenantB), Str(<<"5">>)},
      io \in BOOLEAN,
      pl \in PermPayloads }

\* lines 18-25: the owner and admin shortcuts
PermShortcut(r) ==
  \/ r.user.role = Str(owner)
  \/ r.isOwner
  \/ (r.user.role = Str(owner) /\ r.user.tenantId = Str(<<"0","0","0","0","0","0","0","0","0","0">>))
  \/ r.user.role = Str(admin)

\* lines 14-30
PermStart ==
  /\ mw = "perm" /\ pc = "start"
  /\ IF Unauthenticated(req)
     THEN Terminal(Respond(401, "Unauthorized")) /\ pc' = "done"
     ELSE IF PermShortcut(req)
     THEN Terminal(Continue) /\ pc' = "done"
     ELSE /\ pc' = IF req.user.id # 0 THEN "userRoles" ELSE "rolePerm"
          /\ UNCHANGED verdict
  /\ UNCHANGED <<apart, catalog, trail, history, input, req, dbLocals, reads, failed, frozen, err,
                 reported, tenantContext, events>>

\* the catch block: next(err)
PermCatch ==
  /\ failed' = TRUE
  /\ err' \in PrismaErrors
  /\ Terminal(ContinueWithError)
  /\ pc' = "error"

\* prisma.userRole.findMany({ where: { userId, tenantId: req.tenantId } });
\* an undefined tenantId leaves the column unfiltered
PermUserRolesWhere(rows, uid, ten) ==
  SelectRows(rows,
    { rows[i].id : i \in { j \in 1..Len(rows) :
         /\ rows[j].userId = uid
         /\ (ten.t = "num" => rows[j].tenantId = ten.n) } })

\* lines 31-37
PermUserRoles ==
  /\ mw = "perm" /\ pc = "userRoles"
  /\ reads' = [reads EXCEPT !.userRole = @ + 1]
  /\ \E fail \in BOOLEAN :
       IF fail \/ req.tenantId.t = "str"
       THEN PermCatch /\ UNCHANGED allRoles
       ELSE LET rows == PermUserRolesWhere(userRoleTbl, req.user.id, req.tenantId)
            IN /\ allRoles' = [k \in 1..Len(rows) |-> FindRole(roleTbl, rows[k].roleId)]
               /\ pc' = "rolePerm"
               /\ UNCHANGED <<failed, err, verdict>>
  /\ UNCHANGED <<apart, catalog, trail, history, input, req, tenantId, orgUnitId, pending, fetchId,
                 userPerms, frozen, reported, tenantContext, events>>

\* prisma.rolePermission.findFirst({ where: { role: { in: roles },
\* permission: { name } } }): a row whose role is one of roles (the base role
\* by name, an assigned role by row) and whose permission has the name
PermRowMatches(row, roles, r, all, nm) ==
  /\ PermissionTbl[row.permissionId].name = nm
  /\ \/ (r.user.role.t = "str" /\ FindRole(roles, row.roleId).name = r.user.role.s)
     \/ row.roleId \in RoleIdsOf(all)

PermFindFirst(rows, roles, r, all, nm) ==
  \E i \in 1..Len(rows) : PermRowMatches(rows[i], roles, r, all, nm)

\* lines 41-50
PermRolePerm ==
  /\ mw = "perm" /\ pc = "rolePerm"
  /\ reads' = [reads EXCEPT !.rolePermission = @ + 1]
  /\ \E fail \in BOOLEAN :
       IF fail
       THEN PermCatch
       ELSE /\ IF PermFindFirst(rolePermTbl, roleTbl, req, allRoles, permissionName(opts))
               THEN Terminal(Continue)
               ELSE Terminal(Respond(403, "Forbidden: insufficient permissions"))
            /\ pc' = "done"
            /\ UNCHANGED <<failed, err>>
  /\ UNCHANGED <<apart, catalog, trail, history, input, req, dbLocals, frozen, reported,
                 tenantContext, events>>

PermArrive ==
  \E r \in PermRequests, nm \in {invView, prodCreate} : Arrive("perm", r, PermOptions(nm))

\* ------------------------------------------------------------ static rbac
proto == <<"_","_","p","r","o","t","o","_","_">>
constructor == <<"c","o","n","s","t","r","u","c","t","o","r">>
prototype == <<"p","r","o","t","o","t","y","p","e">>

StaticUsers ==
  { NoUser,
    User(1, Str(Manager), Num(TenantA)),
    User(1, Str(cashier), Num(TenantA)),
    User(2, Str(owner), Num(TenantA)),
    User(2, Undef, Num(TenantA)),
    User(2, Str(proto), Num(TenantA)),
    UserWithPerms(1, Str(cashier), Num(TenantA), "array", <<InvView, prodCreate>>),
    UserWithPerms(1, Undef, Num(TenantA), "string", <<ProdCreate>>) }

StaticOptionSet ==
  { NoOptions,
    Defaulted(Options(<<admin, manager>>, <<>>, <<>>, <<>>, TRUE, "", 0)),
    Options(<<>>, <<invView>>, <<>>, <<>>, FALSE, "No access", 404),
    Defaulted(Options(<<cashier>>, <<ProdCreate>>, <<>>, <<>>, TRUE, "", 0)) }

StaticRequests ==
  { Req(u, ten, 0, Undef, pathP) : u \in StaticUsers, ten \in {Undef, Num(TenantA), Num(TenantB)} }

\* line 37
StaticUserRole(u) == IF u.role.t = "str" THEN toLowerCase(u.role.s) ELSE <<>>

\* lines 43-48
StaticUserPerms(u) ==
  IF u.permsKind = "array" THEN Elems(MapLower(u.permissions))
  ELSE IF u.permsKind = "string" THEN {toLowerCase(u.permissions[1])}
  ELSE {}

\* lines 50-51
StaticAllowed(o, u) ==
  \/ StaticUserRole(u) \in normalizedRoles(o)
  \/ hasPerm(o, StaticUserPerms(u))

\* the whole handler: it awaits nothing
StaticRbac ==
  /\ mw = "static" /\ pc = "start"
  /\ IF Unauthenticated(req)
     THEN /\ events' = Append(events, "RBAC: No user found on request")
          /\ Terminal(Respond(401, "Unauthorized: User not authenticated"))
          /\ UNCHANGED frozen
     ELSE IF \/ Includes(StaticUserRole(req.user), proto)
             \/ Includes(StaticUserRole(req.user), constructor)
     THEN /\ events' = Append(events, "RBAC: Invalid user role detected")
          /\ Terminal(Respond(403, "Forbidden: Invalid user role"))
          /\ UNCHANGED frozen
     ELSE IF ~StaticAllowed(opts, req.user)
     THEN /\ events' = Append(events, "RBAC: Access denied")
          /\ Terminal(Respond(denyStatus(opts), denyMessage(opts)))
          /\ UNCHANGED frozen
     ELSE /\ frozen' = opts.freezeUser
          /\ Terminal(Continue)
          /\ UNCHANGED events
  /\ pc' = "done"
  /\ UNCHANGED <<apart, catalog, trail, history, input, req, dbLocals, reads, failed, err, reported,
                 tenantContext>>

StaticArrive ==
  /\ OneCatalog
  /\ \E r \in StaticRequests, o \in StaticOptionSet : Arrive("static", r, o)

\* ---------------------------------------------- product routes, static rbac
\* part_003 lines 10-17: each route and the argument it hands to rbac
ProductRoute(m, p, rs) == [method |-> m, path |-> p, arg |-> [kind |-> "array", items |-> rs]]

ProductRoutes ==
  { ProductRoute(POST, slash, <<admin, manager, owner>>),
    ProductRoute(PUT, pathId, <<admin, manager, owner>>),
    ProductRoute(DELETE, pathId, <<admin, manager, owner>>),
    ProductRoute(GET, slash, <<admin, manager, cashier, owner>>),
    ProductRoute(GET, pathId, <<admin, manager, cashier, owner>>) }

\* rbac.middleware.js lines 16-23: the destructuring of the argument; an
\* array has no property named roles, permissions, freezeUser, denyMessage
\* or denyStatus, so every name takes its default
Destructured(arg) ==
  IF arg.kind = "array" THEN NoOptions ELSE arg.options

\* req.user as authenticateToken attaches it
ProductUsers ==
  { User(1, Str(r), Num(TenantA)) : r \in {admin, Manager, cashier, owner, vp} }

ProductArrive ==
  /\ OneCatalog
  /\ \E rt \in ProductRoutes, u \in ProductUsers :
       Arrive("static",
              [Req(u, Undef, 0, Undef, apiProducts) EXCEPT !.method = rt.method,
                                                           !.path = rt.path],
              Destructured(rt.arg))

\* ------------------------------------------- a protected route, auditLog
\* router.post(path, authenticateToken, rbac(name), auditLog(name, resource),
\* handler): the permission-name rbac, then auditLog, then the controller

\* JSON.stringify of an object of string-valued fields: every own property
\* is kept, one whose value is undefined is dropped
Defined(e) == e[2].t # "undef"

stringify(obj) == SelectSeq(obj, Defined)

\* line 72: details of the audit record
Details(r) ==
  [body |-> stringify(r.body), params |-> stringify(r.params),
   query |-> stringify(r.query)]

\* lines 64-76: the row handed to prisma.auditLog.create
AuditRow(o, r) ==
  [userId |-> IF r.user.present THEN r.user.id ELSE 0,
   action |-> permissionName(o),
   details |-> Details(r)]

\* an auditLog that awaits the write before it calls next()
auditLogAwaiting ==
  /\ mw = "perm" /\ pc = "done" /\ outcome = Continue /\ ~listener
  /\ listener' = TRUE
  /\ auditTbl' = Append(auditTbl, AuditRow(opts, req))
  /\ pc' = "handler"
  /\ UNCHANGED <<apart, catalog, history, input, req, dbLocals, reads, failed, frozen, verdict,
                 err, reported, tenantContext, events, response, finished>>

\* lines 61-62 and 82: auditLog registers its callback and calls next()
auditLog ==
  /\ mw = "perm" /\ pc = "done" /\ outcome = Continue /\ ~listener
  /\ listener' = TRUE
  /\ pc' = "handler"
  /\ UNCHANGED <<apart, catalog, history, input, req, dbLocals, reads, failed, frozen, verdict,
                 err, reported, tenantContext, events, response, finished,
                 auditTbl>>

\* the controller answers the request
HandlerStatuses == {201, 400}

handler ==
  /\ mw = "perm" /\ pc = "handler"
  /\ \E st \in HandlerStatuses : response' = Respond(st, "")
  /\ pc' = "responded"
  /\ UNCHANGED <<apart, catalog, history, input, req, dbLocals, reads, failed, frozen, verdict,
                 err, reported, tenantContext, events, listener, finished,
                 auditTbl>>

\* a response has been sent by rbac, by errorHandler or by the controller
Sent ==
  \/ pc = "done" /\ outcome.kind \in {"res", "nextErr"}
  \/ pc = "responded"

\* the response is handed off and 'finish' is emitted: the callback, if
\* registered, starts
finish ==
  /\ mw = "perm" /\ Sent /\ ~finished
  /\ finished' = TRUE
  /\ pc' = IF listener THEN "audit" ELSE "end"
  /\ UNCHANGED <<apart, catalog, history, input, req, dbLocals, reads, failed, frozen, verdict,
                 err, reported, tenantContext, events, listener, response,
                 auditTbl>>

\* lines 63-80: the callback; a failed create is swallowed by its catch
auditWrite ==
  /\ mw = "perm" /\ pc = "audit"
  /\ \E fail \in BOOLEAN :
       IF fail
       THEN UNCHANGED auditTbl
       ELSE auditTbl' = Append(auditTbl, AuditRow(opts, req))
  /\ pc' = "end"
  /\ UNCHANGED <<apart, catalog, history, input, req, dbLocals, reads, failed, frozen, verdict,
                 err, reported, tenantContext, events, listener, response,
                 finished>>
\* ------------------------------------------------------- tenantMiddleware
tenOwner == <<"0","0","0","0","0","0","0","0","0","0">>

ReservedNames == {proto, constructor, prototype}

TenantOptions(restricted, allowed, resolver, resolved) ==
  [NoOptions EXCEPT !.restricted = restricted, !.allowedTenants = allowed,
                    !.resolver = resolver, !.resolved = resolved]

\* options: allowedTenants absent or a list; tenantResolver absent, a
\* function returning a value, or a function that throws
TenantOptionSet ==
  { TenantOptions(rs, <<Num(5), Str(<<"1">>)>>, "none", Undef) : rs \in BOOLEAN }
  \cup
  { TenantOptions(FALSE, <<>>, "value", v) :
      v \in {Undef, Str(<<"7">>), Str(<<" ">>), Num(0), False, Num(5)} }
  \cup
  { TenantOptions(FALSE, <<>>, "throws", Undef) }

TenantUsers ==
  { NoUser,
    User(1, Undef, Num(TenantA)),
    User(1, Str(cashier), Undef),
    User(2, Str(owner), Num(1)),
    User(2, Str(owner), Undef) }

TenantHeaders ==
  { NoHeader, Header(<<" ","6"," ">>), Header(<<" ">>), Header(<<"1">>),
    Header(<<" ">> \o proto), Header(tenOwner) }

TenantHosts ==
  { Undef, Str(<<"t",".","a",".","b">>), Str(<<"a",".","b">>) }

TenantRequests ==
  { [Req(u, Undef, 0, Undef, pathP) EXCEPT !.header = h, !.hostname = hn] :
      u \in TenantUsers, h \in TenantHeaders, hn \in TenantHosts }

Resolution(halt, tid, source) == [halt |-> halt, tid |-> tid, source |-> source]

\* lines 74-83: the custom resolver
FromResolver(o) ==
  IF o.resolver = "none" THEN Resolution("none", Undef, "null")
  ELSE IF o.resolver = "throws" THEN Resolution("resolverError", Undef, "null")
  ELSE Resolution("none", o.resolved, "custom")

\* lines 85-89: the claim of the principal
FromClaim(x, r) ==
  IF x.halt = "none" /\ ~Truthy(x.tid) /\ r.user.present /\ Truthy(r.user.tenantId)
  THEN Resolution("none", r.user.tenantId, "jwt")
  ELSE x

\* a header step that takes every non-blank value for a tenant
FromHeaderUnchecked(x, r) ==
  IF x.halt = "none" /\ ~Truthy(x.tid) /\ r.header.own /\ trim(r.header.value) # <<>>
  THEN Resolution("none", Str(trim(r.header.value)), "header")
  ELSE x

\* lines 91-103: the x-tenant-id header (a header value is a string)
FromHeader(x, r) ==
  IF x.halt = "none" /\ ~Truthy(x.tid) /\ r.header.own /\ trim(r.header.value) # <<>>
  THEN IF trim(r.header.value) \in ReservedNames
       THEN Resolution("headerInvalid", x.tid, x.source)
       ELSE Resolution("none", Str(trim(r.header.value)), "header")
  ELSE x

\* lines 105-113: the subdomain
FromHost(x, r) ==
  IF x.halt = "none" /\ ~Truthy(x.tid) /\ Truthy(r.hostname)
     /\ Len(splitDot(r.hostname.s, <<>>)) > 2
  THEN Resolution("none", Str(splitDot(r.hostname.s, <<>>)[1]), "subdomain")
  ELSE x

\* lines 115-118: String(tenantId).trim() unless undefined
Normalized(x) ==
  IF x.tid.t = "undef" THEN x
  ELSE Resolution(x.halt, Str(trim(JsString(x.tid))), x.source)

\* a resolver that consults the header before the claim of the principal
ResolveTenantHeaderFirst(o, r) ==
  Normalized(FromHost(FromClaim(FromHeader(FromResolver(o), r), r), r))

\* lines 71-118, the sources in the order the handler consults them
ResolveTenant(o, r) ==
  Normalized(FromHost(FromHeader(FromClaim(FromResolver(o), r), r), r))

\* a cheat code that does not look at the role of the principal
OwnerCheatAnyRole(tid, r) ==
  /\ tid = Str(tenOwner) \/ tid = Str(<<"1">>)
  /\ r.user.present

\* line 121: the owner cheat code
OwnerCheat(tid, r) ==
  /\ tid = Str(tenOwner) \/ tid = Str(<<"1">>)
  /\ r.user.present
  /\ r.user.role = Str(owner)

\* line 152: allowedTenants.map(String).includes(tenantId)
TenantAllowed(o, tid) ==
  \E i \in 1..Len(o.allowedTenants) : JsString(o.allowedTenants[i]) = tid.s

Context(tid, source, isOwner) ==
  [set |-> TRUE, tenantId |-> tid.s, source |-> source, isOwner |-> isOwner]

\* the whole handler: it awaits nothing
tenantMiddleware ==
  /\ mw = "tenant" /\ pc = "start"
  /\ LET x == ResolveTenant(opts, req)
     IN IF x.halt = "resolverError"
        THEN /\ events' = Append(events, "TENANT_RESOLVER_ERROR")
             /\ Terminal(Respond(500, "Tenant resolution failed."))
             /\ UNCHANGED <<req, tenantContext>>
        ELSE IF x.halt = "headerInvalid"
        THEN /\ events' = Append(events, "TENANT_HEADER_INVALID")
             /\ Terminal(Respond(400, "Invalid tenant header."))
             /\ UNCHANGED <<req, tenantContext>>
        ELSE IF OwnerCheat(x.tid, req)
        THEN /\ req' = [req EXCEPT !.tenantId = x.tid]
             /\ tenantContext' = Context(x.tid, x.source, TRUE)
             /\ events' = Append(events, "OWNER_CHEATCODE_USED")
             /\ Terminal(Continue)
        ELSE IF Truthy(x.tid)
        THEN IF opts.restricted /\ ~TenantAllowed(opts, x.tid)
             THEN /\ events' = events \o <<"TENANT_DEBUG", "TENANT_NOT_ALLOWED">>
                  /\ Terminal(Respond(403, "Tenant not allowed."))
                  /\ UNCHANGED <<req, tenantContext>>
             ELSE /\ req' = [req EXCEPT !.tenantId = x.tid]
                  /\ tenantContext' = Context(x.tid, x.source, FALSE)
                  /\ events' = events \o <<"TENANT_DEBUG", "TENANT_RESOLVED">>
                  /\ Terminal(Continue)
        ELSE /\ events' = Append(events, "TENANT_MISSING")
             /\ Terminal(Respond(400, "Tenant context required."))
             /\ UNCHANGED <<req, tenantContext>>
  /\ pc' = "done"
  /\ UNCHANGED <<apart, catalog, trail, history, input, dbLocals, reads, failed, frozen, err, reported>>

TenantArrive ==
  /\ OneCatalog
  /\ \E r \in TenantRequests, o \in TenantOptionSet : Arrive("tenant", r, o)


\* ------------------------------------- DB-backed rbac, evaluations side by side
\* Express runs the async handler once per request; every invocation has its
\* own tenantId, orgUnitId, userRoles, allRoles and userPermissions, and the
\* awaits let invocations of different requests interleave
EvalIds == 1..2

Eval(r, o) ==
  [req |-> r, opts |-> o, pc |-> "start", tenantId |-> Undef, orgUnitId |-> 0,
   pending |-> <<>>, fetchId |-> 0, allRoles |-> <<>>, userPerms |-> {},
   roleReads |-> 0, failed |-> FALSE, frozen |-> FALSE, outcome |-> NoOutcome,
   overlapped |-> FALSE]

\* the requests met side by side: two users, a tenant chosen by the request,
\* an anonymous request
EvalRequests ==
  << Req(User(1, Undef, Num(TenantA)), Undef, 0, Undef, pathP),
     Req(User(2, Str(manager), Num(TenantA)), Undef, 0, Str(product), pathP),
     Req(User(2, Str(manager), Num(TenantA)), Num(TenantB), 0, Undef, pathP),
     Req(NoUser, Undef, 0, Undef, pathP) >>

\* two different requests at one middleware instance
EvalsInit ==
  \E k1 \in DOMAIN EvalRequests, k2 \in DOMAIN EvalRequests, o \in DbOptionSet :
    /\ k1 < k2
    /\ evals = <<Eval(EvalRequests[k1], o), Eval(EvalRequests[k2], o)>>

\* another invocation is between its first and its last step
InFlightBeside(i) ==
  \E j \in EvalIds \ {i} : evals[j].pc \notin {"start", "done"}

\* locals kept in one place for all invocations: the Map of roles and the
\* permission names of one evaluation are those of every evaluation
WriteShared(i, e) ==
  [j \in EvalIds |->
     IF j = i THEN [e EXCEPT !.overlapped = @ \/ InFlightBeside(i)]
     ELSE [evals[j] EXCEPT !.allRoles = e.allRoles, !.userPerms = e.userPerms]]

\* lines 72-131: const and let declarations inside the handler: a step of
\* invocation i writes the locals of invocation i only
Write(i, e) ==
  [evals EXCEPT ![i] = [e EXCEPT !.overlapped = @ \/ InFlightBeside(i)]]

\* the catch block, for one invocation
EvalCatch(e) ==
  [e EXCEPT !.failed = TRUE, !.pc = "done",
            !.outcome = Respond(500, "Internal server error (RBAC)")]

\* lines 72-84
EvalStart(i) ==
  LET e == evals[i]
      ten == DbTenantOf(e.req)
  IN /\ evals # <<>> /\ e.pc = "start"
     /\ evals' = Write(i,
          IF Unauthenticated(e.req)
          THEN [e EXCEPT !.pc = "done",
                         !.outcome = Respond(401, "Unauthorized: User not authenticated")]
          ELSE IF ~Truthy(ten)
          THEN [e EXCEPT !.pc = "done",
                         !.outcome = Respond(400, "Bad request: tenantId required")]
          ELSE [e EXCEPT !.pc = "userRoles", !.tenantId = ten,
                         !.orgUnitId = IF e.req.orgUnitId # 0 THEN e.req.orgUnitId
                                       ELSE e.req.user.orgUnitId])
     /\ UNCHANGED besideEvals

\* lines 94-101
EvalUserRoles(i) ==
  LET e == evals[i]
  IN /\ evals # <<>> /\ e.pc = "userRoles"
     /\ \E fail \in BOOLEAN :
          evals' = Write(i,
            IF fail \/ ~IntArgValid(e.tenantId)
            THEN EvalCatch(e)
            ELSE [e EXCEPT !.pc = "walk",
                           !.pending = UserRolesWhere(userRoleTbl, e.req.user.id,
                                                      e.tenantId.n, e.orgUnitId)])
     /\ UNCHANGED besideEvals

\* lines 105-120
EvalWalk(i) ==
  LET e == evals[i]
  IN /\ evals # <<>> /\ e.pc \in {"walk", "parent"}
     /\ IF e.pc = "parent"
        THEN /\ e.roleReads < MaxFetch
             /\ \E fail \in BOOLEAN :
                  evals' = Write(i,
                    IF fail THEN [EvalCatch(e) EXCEPT !.roleReads = @ + 1]
                    ELSE LET c == collectRoleAndParents(FindRole(roleTbl, e.fetchId), e.allRoles)
                         IN [e EXCEPT !.roleReads = @ + 1, !.allRoles = c.all,
                                      !.fetchId = c.fetch,
                                      !.pc = IF c.fetch # 0 THEN "parent" ELSE "walk"])
        ELSE IF e.pending # <<>>
        THEN LET c == collectRoleAndParents(FindRole(roleTbl, Head(e.pending).roleId), e.allRoles)
             IN evals' = Write(i,
                  [e EXCEPT !.allRoles = c.all, !.pending = Tail(e.pending),
                            !.fetchId = c.fetch,
                            !.pc = IF c.fetch # 0 THEN "parent" ELSE "walk"])
        ELSE evals' = Write(i,
               IF ShortcutRole(RoleNames(e.allRoles))
               THEN [e EXCEPT !.outcome = Continue, !.pc = "done"]
               ELSE [e EXCEPT !.pc = "rolePerms"])
     /\ UNCHANGED besideEvals

\* lines 123-169
EvalRolePerms(i) ==
  LET e == evals[i]
      perms == PermNames(RolePermsWhere(rolePermTbl, RoleIdsOf(e.allRoles), e.tenantId.n))
  IN /\ evals # <<>> /\ e.pc = "rolePerms"
     /\ \E fail \in BOOLEAN :
          evals' = Write(i,
            IF fail THEN EvalCatch(e)
            ELSE IF DbAllowed(e.opts, e.req, RoleNames(e.allRoles), perms)
            THEN [e EXCEPT !.userPerms = perms, !.frozen = e.opts.freezeUser,
                           !.outcome = Continue, !.pc = "done"]
            ELSE [e EXCEPT !.userPerms = perms, !.pc = "done",
                           !.outcome = Respond(denyStatus(e.opts), denyMessage(e.opts))])
     /\ UNCHANGED besideEvals

\* ------------------------------------------------------------ offline sync
SyncIds == 1..2

\* offlineId values sent by the clients
OfflineIds == {"a", "b"}

SaleItem(oid) == [offlineId |-> oid]

UpdateItem(oid, inv, qty) == [offlineId |-> oid, inventoryId |-> inv, quantity |-> qty]

\* req.body.sales
SalesBatches ==
  { <<>>, <<SaleItem("a")>>, <<SaleItem("a"), SaleItem("b")>> }

\* req.body.inventoryUpdates
InventoryBatches ==
  { <<UpdateItem("a", 1, 3)>>,
    <<UpdateItem("a", 1, 3), UpdateItem("b", 1, 7)>>,
    <<UpdateItem("b", 2, 4)>> }

\* Inventory rows: one per tenant
InventoryRows ==
  <<[id |-> 1, quantity |-> 5, tenantId |-> TenantA],
    [id |-> 2, quantity |-> 5, tenantId |-> TenantB]>>

\* req.tenantId as the sync handlers find it
SyncTenants == {Undef, Num(TenantA), Num(TenantB), Str(<<"5">>)}

\* one request: its inputs, the locals of the invocation, the response, and
\* a record of what it has done
Sync(kind, ten, batch) ==
  [kind |-> kind, tenantId |-> ten, batch |-> batch, pc |-> "start", k |-> 1,
   inventory |-> 0, results |-> <<>>, status |-> 0,
   replay |-> FALSE, created |-> 0, updates |-> 0, faulted |-> FALSE]

SyncRequests ==
  { Sync("sales", t, b) : t \in SyncTenants, b \in SalesBatches }
    \cup { Sync("inventory", t, b) : t \in SyncTenants, b \in InventoryBatches }

OfflineInit ==
  /\ saleTbl = <<>>
  /\ inventoryTbl = InventoryRows
  /\ historyTbl = <<>>
  /\ syncs \in [SyncIds -> SyncRequests]

\* a lookup that never finds a row
ExistingNever(rows, oid, ten) == FALSE

\* findFirst({ where: { offlineId, tenantId } }) finds a row
Existing(rows, oid, ten) ==
  \E i \in 1..Len(rows) : rows[i].offlineId = oid /\ rows[i].tenantId = ten

\* the unique index on offlineId rejects the insert
UniqueViolation(rows, oid) ==
  \E i \in 1..Len(rows) : rows[i].offlineId = oid

\* every item of the batch is already synced for the tenant of the request
Replay(s) ==
  /\ s.batch # <<>>
  /\ s.tenantId.t = "num"
  /\ LET rows == IF s.kind = "sales" THEN saleTbl ELSE historyTbl
     IN \A i \in 1..Len(s.batch) :
          \E j \in 1..Len(rows) :
            /\ rows[j].offlineId = s.batch[i].offlineId
            /\ rows[j].tenantId = s.tenantId.n

\* the catch block: 500 { message: 'Server error' }
SyncCatch(s) == [s EXCEPT !.status = 500, !.pc = "done"]

\* a persistence call fails for a reason of its own
SyncFault(s) == [SyncCatch(s) EXCEPT !.faulted = TRUE]

Result(oid, st) == [offlineId |-> oid, status |-> st]

\* the loop goes on to the next item
NextItem(s, st) ==
  [s EXCEPT !.results = Append(@, Result(s.batch[s.k].offlineId, st)),
            !.k = @ + 1, !.pc = "find"]

\* part_008 lines 38-42: the payload check
SalesValidate(p) ==
  LET s == syncs[p]
  IN /\ syncs # <<>> /\ s.kind = "sales" /\ s.pc = "start"
     /\ syncs' = [syncs EXCEPT ![p] =
          IF ~Truthy(s.tenantId) \/ s.batch = <<>>
          THEN [s EXCEPT !.status = 400, !.pc = "done"]
          ELSE [s EXCEPT !.pc = "find", !.replay = Replay(s)]]
     /\ UNCHANGED <<besideOffline, saleTbl, inventoryTbl, historyTbl>>

\* lines 45-51 and 55: the loop head, the lookup by offlineId, the response
SalesFind(p) ==
  LET s == syncs[p]
  IN /\ syncs # <<>> /\ s.kind = "sales" /\ s.pc = "find"
     /\ IF s.k > Len(s.batch)
        THEN syncs' = [syncs EXCEPT ![p] = [s EXCEPT !.status = 200, !.pc = "done"]]
        ELSE \E fail \in BOOLEAN :
               syncs' = [syncs EXCEPT ![p] =
                 IF fail THEN SyncFault(s)
                 ELSE IF ~IntArgValid(s.tenantId) THEN SyncCatch(s)
                 ELSE IF Existing(saleTbl, s.batch[s.k].offlineId, s.tenantId.n)
                 THEN NextItem(s, "duplicate")
                 ELSE [s EXCEPT !.pc = "create"]]
     /\ UNCHANGED <<besideOffline, saleTbl, inventoryTbl, historyTbl>>

\* lines 52-53: the insert
SalesCreate(p) ==
  LET s == syncs[p]
      oid == s.batch[s.k].offlineId
  IN /\ syncs # <<>> /\ s.kind = "sales" /\ s.pc = "create"
     /\ \E fail \in BOOLEAN :
          IF fail \/ UniqueViolation(saleTbl, oid)
          THEN /\ syncs' = [syncs EXCEPT ![p] = IF fail THEN SyncFault(s) ELSE SyncCatch(s)]
               /\ UNCHANGED saleTbl
          ELSE /\ saleTbl' = Append(saleTbl,
                     [id |-> Len(saleTbl) + 1, offlineId |-> oid,
                      tenantId |-> s.tenantId.n, synced |-> TRUE, source |-> "offline"])
               /\ syncs' = [syncs EXCEPT ![p] = [NextItem(s, "synced") EXCEPT !.created = @ + 1]]
     /\ UNCHANGED <<besideOffline, inventoryTbl, historyTbl>>

syncSales(p) == SalesValidate(p) \/ SalesFind(p) \/ SalesCreate(p)

\* lines 64-68: the payload check
InventoryValidate(p) ==
  LET s == syncs[p]
  IN /\ syncs # <<>> /\ s.kind = "inventory" /\ s.pc = "start"
     /\ syncs' = [syncs EXCEPT ![p] =
          IF ~Truthy(s.tenantId) \/ s.batch = <<>>
          THEN [s EXCEPT !.status = 400, !.pc = "done"]
          ELSE [s EXCEPT !.pc = "find", !.replay = Replay(s)]]
     /\ UNCHANGED <<besideOffline, saleTbl, inventoryTbl, historyTbl>>

\* lines 71-77 and 101: the loop head, the lookup by offlineId, the response
InventoryFind(p) ==
  LET s == syncs[p]
  IN /\ syncs # <<>> /\ s.kind = "inventory" /\ s.pc = "find"
     /\ IF s.k > Len(s.batch)
        THEN syncs' = [syncs EXCEPT ![p] = [s EXCEPT !.status = 200, !.pc = "done"]]
        ELSE \E fail \in BOOLEAN :
               syncs' = [syncs EXCEPT ![p] =
                 IF fail THEN SyncFault(s)
                 ELSE IF ~IntArgValid(s.tenantId) THEN SyncCatch(s)
                 ELSE IF Existing(historyTbl, s.batch[s.k].offlineId, s.tenantId.n)
                 THEN NextItem(s, "duplicate")
                 ELSE [s EXCEPT !.pc = "inventory"]]
     /\ UNCHANGED <<besideOffline, saleTbl, inventoryTbl, historyTbl>>

\* lines 79-83: the Inventory row of the tenant
InventoryLookup(p) ==
  LET s == syncs[p]
      u == s.batch[s.k]
      found == { i \in 1..Len(inventoryTbl) :
                   inventoryTbl[i].id = u.inventoryId
                   /\ inventoryTbl[i].tenantId = s.tenantId.n }
  IN /\ syncs # <<>> /\ s.kind = "inventory" /\ s.pc = "inventory"
     /\ \E fail \in BOOLEAN :
          syncs' = [syncs EXCEPT ![p] =
            IF fail THEN SyncFault(s)
            ELSE IF found = {} THEN NextItem(s, "not found")
            ELSE [s EXCEPT !.pc = "update",
                           !.inventory = inventoryTbl[CHOOSE i \in found : TRUE].quantity]]
     /\ UNCHANGED <<besideOffline, saleTbl, inventoryTbl, historyTbl>>

\* line 84: the quantity is overwritten
InventoryUpdate(p) ==
  LET s == syncs[p]
      u == s.batch[s.k]
  IN /\ syncs # <<>> /\ s.kind = "inventory" /\ s.pc = "update"
     /\ \E fail \in BOOLEAN :
          IF fail
          THEN /\ syncs' = [syncs EXCEPT ![p] = SyncFault(s)]
               /\ UNCHANGED inventoryTbl
          ELSE /\ inventoryTbl' =
                    [i \in 1..Len(inventoryTbl) |->
                       IF inventoryTbl[i].id = u.inventoryId
                       THEN [inventoryTbl[i] EXCEPT !.quantity = u.quantity]
                       ELSE inventoryTbl[i]]
               /\ syncs' = [syncs EXCEPT ![p] =
                    [s EXCEPT !.pc = "history", !.updates = @ + 1]]
     /\ UNCHANGED <<besideOffline, saleTbl, historyTbl>>

\* lines 85-99: the InventoryHistory row
InventoryHistory(p) ==
  LET s == syncs[p]
      u == s.batch[s.k]
  IN /\ syncs # <<>> /\ s.kind = "inventory" /\ s.pc = "history"
     /\ \E fail \in BOOLEAN :
          IF fail \/ UniqueViolation(historyTbl, u.offlineId)
          THEN /\ syncs' = [syncs EXCEPT ![p] = IF fail THEN SyncFault(s) ELSE SyncCatch(s)]
               /\ UNCHANGED historyTbl
          ELSE /\ historyTbl' = Append(historyTbl,
                     [inventoryId |-> u.inventoryId, quantityBefore |-> s.inventory,
                      quantityAfter |-> u.quantity, offlineId |-> u.offlineId,
                      tenantId |-> s.tenantId.n, synced |-> TRUE, source |-> "offline"])
               /\ syncs' = [syncs EXCEPT ![p] = [NextItem(s, "synced") EXCEPT !.created = @ + 1]]
     /\ UNCHANGED <<besideOffline, saleTbl, inventoryTbl>>

syncInventory(p) ==
  \/ InventoryValidate(p)
  \/ InventoryFind(p)
  \/ InventoryLookup(p)
  \/ InventoryUpdate(p)
  \/ InventoryHistory(p)

\* ------------------------------------------------------------ notifications
\* req.user of the calling request: absent, or a user with an id
Callers == {NoUser, User(1, Str(cashier), Num(TenantA)), User(2, Str(manager), Num(TenantA))}

\* user?.id
IdOf(u) == IF u.present THEN Num(u.id) ELSE Undef

\* a logUserAction that leaves the user out of the entry
logUserActionAnonymous(u, action, resrc, details) ==
  [userId |-> Undef, action |-> action, resource |-> resrc, details |-> details]

\* auditLogService.js lines 29-39: the entry handed to writeAuditLog
logUserAction(u, action, resrc, details) ==
  [userId |-> IdOf(u), action |-> action, resource |-> resrc, details |-> details]

\* lines 53-57: no socket broadcast for these event types, one log line
notifyAll(event) == [event |-> "NOTIFY_ALL", type |-> event, userId |-> Undef]

\* lines 60-63
notifyUser(u, event) == [event |-> "NOTIFY_USER", type |-> event, userId |-> IdOf(u)]

\* lines 66-69
notifyAdmins(event) == [event |-> "NOTIFY_ADMINS", type |-> event, userId |-> Undef]

\* a call: the notices it sends, then the entry it has written
Notify(fn, named, sent, entry) ==
  /\ Len(calls) < MaxCalls
  /\ calls' = Append(calls, [fn |-> fn, user |-> named])
  /\ notices' = notices \o sent
  /\ auditFile' = Append(auditFile, entry)
  /\ UNCHANGED besideNotification

\* lines 72-83
notifyLowStock ==
  \E u \in Callers :
    Notify("notifyLowStock", u,
           <<notifyAll("lowStockAlert"), notifyAdmins("lowStockAlert")>>,
           logUserAction(u, "LOW_STOCK_ALERT", "inventory", "lowStockPayload"))

\* lines 86-97: the user is the one the login was attempted for, req.user
\* plays no part
notifySuspiciousLogin ==
  \E u \in Callers \ {NoUser}, ru \in Callers :
    Notify("notifySuspiciousLogin", u,
           <<notifyUser(u, "suspiciousLogin"), notifyAdmins("suspiciousLogin")>>,
           logUserAction(u, "SUSPICIOUS_LOGIN", "auth", "suspiciousLoginPayload"))

\* lines 100-111
notifyPaymentFailed ==
  \E u \in Callers :
    Notify("notifyPaymentFailed", u,
           <<notifyAll("paymentFailed"), notifyAdmins("paymentFailed")>>,
           logUserAction(u, "PAYMENT_FAILED", "payment", "paymentFailedPayload"))

\* lines 114-123
notifyNewSale ==
  \E u \in Callers :
    Notify("notifyNewSale", u, <<notifyAll("newSale")>>,
           logUserAction(u, "NEW_SALE", "sales", "sale"))

\* lines 126-135
notifyNewCustomer ==
  \E u \in Callers :
    Notify("notifyNewCustomer", u, <<notifyAll("newCustomer")>>,
           logUserAction(u, "NEW_CUSTOMER", "customer", "customer"))

\* ---------------------------------------------------- application pipeline
\* the principals a valid token decodes to: each carries a tenant claim
TokenUsers ==
  { User(1, Str(cashier), Num(TenantA)), User(2, Str(manager), Num(TenantB)) }

\* the x-tenant-id header and the host name are the client's choice
PipelineHeaders ==
  { NoHeader, Header(<<"5">>), Header(<<"6">>), Header(<<" ","6"," ">>), Header(<<" ">>) }

PipelineHosts ==
  { Undef, Str(<<"6",".","a",".","b">>), Str(<<"a",".","b">>) }

\* requests as they reach app.use(['/api', '/api/*'], ...): no req.user yet,
\* an Authorization header that is absent, invalid, or a token of a user
PipelineRequests ==
  { [Req(NoUser, Undef, 0, Undef, apiProducts)
       EXCEPT !.header = h, !.hostname = hn,
              !.authorization = au[1], !.token = au[2]] :
      h \in PipelineHeaders, hn \in PipelineHosts,
      au \in {<<"none", NoUser>>, <<"invalid", NoUser>>}
               \cup { <<"valid", u>> : u \in TokenUsers } }

\* app.js lines 123-126: tenantMiddleware() with no options, before the
\* routers
PipelineArrive ==
  /\ OneCatalog
  /\ \E r \in PipelineRequests : Arrive("tenant", r, NoOptions)

\* auth.middleware.js lines 30-45, as the first handler of a route, after the
\* tenant middleware has called next(); on success the rbac of the route
\* is next
authenticateToken ==
  /\ mw = "tenant" /\ pc = "done" /\ outcome = Continue
  /\ IF req.authorization = "none"
     THEN /\ mw' = "auth"
          /\ events' = Append(events, "AUTH_NO_TOKEN")
          /\ outcome' = Respond(401, "No token provided")
          /\ nexts' = 0 /\ sends' = 1
          /\ pc' = "done"
          /\ UNCHANGED <<req, opts>>
     ELSE IF req.authorization = "invalid"
     THEN /\ mw' = "auth"
          /\ events' = Append(events, "AUTH_INVALID_TOKEN")
          /\ outcome' = Respond(403, "Invalid or expired token")
          /\ nexts' = 0 /\ sends' = 1
          /\ pc' = "done"
          /\ UNCHANGED <<req, opts>>
     ELSE /\ req' = [req EXCEPT !.user = req.token]
          /\ mw' = "db"
          /\ \E o \in DbOptionSet : opts' = o
          /\ outcome' = NoOutcome
          /\ nexts' = 0 /\ sends' = 0
          /\ pc' = "start"
          /\ UNCHANGED events
  /\ UNCHANGED <<apart, catalog, trail, history, dbLocals, reads, failed, frozen, err,
                 reported, tenantContext>>

\* ------------------------------------------------------------ login lockout
\* authController.js lines 91-92
MAX_FAILED_ATTEMPTS == 5

LOCKOUT_MINUTES == 15

LoginIds == 1..2

\* line 107: user.isLocked && user.lockedUntil && lockedUntil > now
Locked(u, t) == u.isLocked /\ u.lockedUntil # 0 /\ u.lockedUntil > t

\* the catch block: 500 { message: 'Server error' }
LoginCatch(l) == [l EXCEPT !.status = 500, !.faulted = TRUE, !.pc = "done"]

\* a request with a valid body arrives for the account
LoginArrive(p) ==
  /\ logins[p].pc \in {"idle", "done"}
  /\ tally.started < MaxAttempts
  /\ \E pw \in {"right", "wrong"} :
       logins' = [logins EXCEPT ![p] =
         [NoLogin EXCEPT !.pc = "find", !.password = pw,
                         !.lockedUntil = IF Locked(account, now)
                                         THEN account.lockedUntil ELSE 0]]
  /\ tally' = [tally EXCEPT !.started = @ + 1]
  /\ UNCHANGED <<besideLockout, account, now>>

\* lines 101-110: the User row is read; a locked account is answered 403
LoginFind(p) ==
  LET l == logins[p]
  IN /\ l.pc = "find"
     /\ \E fail \in BOOLEAN :
          logins' = [logins EXCEPT ![p] =
            IF fail THEN LoginCatch(l)
            ELSE IF Locked(account, now)
            THEN [l EXCEPT !.user = account, !.readAt = now, !.status = 403, !.pc = "done"]
            ELSE [l EXCEPT !.user = account, !.readAt = now, !.pc = "compare"]]
     /\ UNCHANGED <<besideLockout, account, now, tally>>

\* lines 112-129 and 157-164: bcrypt.compare; a wrong password goes on to
\* the update of the counter, a right one to the reset or to the token
LoginCompare(p) ==
  LET l == logins[p]
  IN /\ l.pc = "compare"
     /\ IF l.password = "wrong"
        THEN /\ logins' = [logins EXCEPT ![p] = [l EXCEPT !.pc = "update"]]
             /\ UNCHANGED tally
        ELSE IF l.user.failedLoginAttempts # 0 \/ l.user.isLocked
        THEN /\ logins' = [logins EXCEPT ![p] = [l EXCEPT !.pc = "reset"]]
             /\ UNCHANGED tally
        ELSE /\ logins' = [logins EXCEPT ![p] = [l EXCEPT !.status = 200, !.pc = "done"]]
             /\ tally' = [tally EXCEPT !.wrongs = 0]
     /\ UNCHANGED <<besideLockout, account, now>>

\* lines 115-125: the counter read at line 101 plus one is written; at the
\* limit the account is locked
LoginUpdate(p) ==
  LET l == logins[p]
      failedCount == l.user.failedLoginAttempts + 1
      locked == failedCount >= MAX_FAILED_ATTEMPTS
  IN /\ l.pc = "update"
     /\ \E fail \in BOOLEAN :
          IF fail
          THEN /\ logins' = [logins EXCEPT ![p] = LoginCatch(l)]
               /\ UNCHANGED <<account, tally>>
          ELSE /\ account' =
                    IF locked
                    THEN [failedLoginAttempts |-> failedCount, isLocked |-> TRUE,
                          lockedUntil |-> now + LOCKOUT_MINUTES]
                    ELSE [account EXCEPT !.failedLoginAttempts = failedCount]
               /\ logins' = [logins EXCEPT ![p] =
                    [l EXCEPT !.status = IF locked THEN 403 ELSE 401, !.pc = "done"]]
               /\ tally' = [tally EXCEPT !.wrongs = @ + 1]
     /\ UNCHANGED <<besideLockout, now>>

\* lines 127-130 and 157-164: the counter is reset, the token is issued
LoginReset(p) ==
  LET l == logins[p]
  IN /\ l.pc = "reset"
     /\ \E fail \in BOOLEAN :
          IF fail
          THEN /\ logins' = [logins EXCEPT ![p] = LoginCatch(l)]
               /\ UNCHANGED <<account, tally>>
          ELSE /\ account' = [failedLoginAttempts |-> 0, isLocked |-> FALSE, lockedUntil |-> 0]
               /\ logins' = [logins EXCEPT ![p] = [l EXCEPT !.status = 200, !.pc = "done"]]
               /\ tally' = [tally EXCEPT !.wrongs = 0]
     /\ UNCHANGED <<besideLockout, now>>

login(p) ==
  \/ LoginArrive(p)
  \/ LoginFind(p)
  \/ LoginCompare(p)
  \/ LoginUpdate(p)
  \/ LoginReset(p)

\* a lockout period goes by
Tick ==
  /\ now < MaxTicks * LOCKOUT_MINUTES
  /\ now' = now + LOCKOUT_MINUTES
  /\ UNCHANGED <<besideLockout, account, logins, tally>>
Next ==
  \/ DbArrive
  \/ DbStart
  \/ DbUserRoles
  \/ DbWalk
  \/ DbRolePerms
  \/ DbAgain
  \/ PermArrive
  \/ PermStart
  \/ PermUserRoles
  \/ PermRolePerm
  \/ errorHandler
  \/ auditLog
  \/ handler
  \/ finish
  \/ auditWrite
  \/ StaticArrive
  \/ StaticRbac
  \/ ProductArrive
  \/ TenantArrive
  \/ tenantMiddleware

Spec == Init /\ [][Next]_vars

\* rbac evaluations of two requests, interleaved at their awaits
EvalsNext ==
  \E i \in EvalIds :
    \/ EvalStart(i)
    \/ EvalUserRoles(i)
    \/ EvalWalk(i)
    \/ EvalRolePerms(i)

EvalsBegin ==
  /\ CatalogInit /\ SingleInit /\ EvalsInit /\ OfflineIdle /\ NotificationInit /\ LockoutInit

EvalsSpec == EvalsBegin /\ [][EvalsNext]_vars

\* sync requests of offline clients, interleaved at their awaits; a request
\* that starts after another has ended is a retry or a later batch
OfflineNext == \E p \in SyncIds : syncSales(p) \/ syncInventory(p)

OfflineBegin ==
  /\ OneCatalogInit /\ SingleInit /\ EvalsIdle /\ OfflineInit /\ NotificationInit /\ LockoutInit

OfflineSpec == OfflineBegin /\ [][OfflineNext]_vars

\* the notify calls the services make, one after another
NotificationNext ==
  \/ notifyLowStock
  \/ notifySuspiciousLogin
  \/ notifyPaymentFailed
  \/ notifyNewSale
  \/ notifyNewCustomer

\* one catalog, no request under way, every subsystem idle
IdleInit == OneCatalogInit /\ SingleInit /\ ApartInit

NotificationSpec == IdleInit /\ [][NotificationNext]_vars

\* a request to a protected /api route: the tenant middleware of the
\* application, then the authentication and the rbac of the route
PipelineNext ==
  \/ PipelineArrive
  \/ tenantMiddleware
  \/ authenticateToken
  \/ DbStart
  \/ DbUserRoles

PipelineSpec == IdleInit /\ [][PipelineNext]_vars

\* logins for one account, interleaved at their awaits, and the clock
LockoutNext ==
  \/ \E p \in LoginIds : login(p)
  \/ Tick

LockoutSpec == IdleInit /\ [][LockoutNext]_vars

\* ------------------------------------------------------------ properties
Done == pc = "done"

Allowed == outcome.kind = "next"

\* the ids on the parentRoleId chain that starts at role i
RECURSIVE ChainFrom(_, _, _)
ChainFrom(roles, i, fuel) ==
  IF i \notin DOMAIN roles \/ fuel = 0 THEN {}
  ELSE {i} \cup ChainFrom(roles, roles[i].parentRoleId, fuel - 1)

RECURSIVE ReachesRoot(_, _, _)
ReachesRoot(roles, i, fuel) ==
  IF i \notin DOMAIN roles THEN TRUE
  ELSE IF fuel = 0 THEN FALSE
  ELSE ReachesRoot(roles, roles[i].parentRoleId, fuel - 1)

Acyclic(roles, i) == ReachesRoot(roles, i, Cardinality(DOMAIN roles))

Chain(roles, i) == ChainFrom(roles, i, Cardinality(DOMAIN roles))

\* the names of the permissions granted directly to the roles of a set
DirectPerms(ids) ==
  { toLowerCase(PermissionTbl[rolePermTbl[k].permissionId].name) :
      k \in { j \in 1..Len(rolePermTbl) : rolePermTbl[j].roleId \in ids } }

\* the DB-backed rbac has aggregated the permissions of the request
Aggregated == mw = "db" /\ Done /\ ~failed /\ reads.rolePermission = 1

\* the principal is user 1, whose only assignment is role 1, the chain of
\* role 1 is acyclic, lies with its grants in the tenant of the request and
\* holds no shortcut role
C1_Case ==
  /\ Aggregated
  /\ req.user.id = 1
  /\ Acyclic(roleTbl, 1)
  /\ \A i \in Chain(roleTbl, 1) :
       /\ roleTbl[i].tenantId = tenantId.n
       /\ toLowerCase(roleTbl[i].name) \notin {owner, admin}
  /\ \A k \in 1..Len(rolePermTbl) :
       rolePermTbl[k].roleId \in Chain(roleTbl, 1) => rolePermTbl[k].tenantId = tenantId.n

\* C1: for an acyclic chain R -> P1 -> ... -> Pn in one tenant and a principal
\* whose only assignment is R, the effective permission set equals the union
\* of the permissions granted directly to R, P1, ..., Pn
C1_EffectivePermissions ==
  C1_Case => userPerms = DirectPerms(Chain(roleTbl, 1))

ForeignShortcutRole ==
  /\ req.user.present
  /\ req.user.role.t = "str"
  /\ toLowerCase(req.user.role.s) \in {owner, admin}
  /\ Truthy(req.user.tenantId)
  /\ Truthy(req.tenantId)
  /\ req.tenantId # req.user.tenantId

\* C3: a role named owner or admin granted in tenant A never produces an
\* Allow for a request evaluated under tenant B, in any rbac middleware
C3_ShortcutTenantScoped ==
  /\ (mw \in {"perm", "static"} /\ Done /\ ForeignShortcutRole) => ~Allowed
  /\ (mw = "db" /\ Done /\ Allowed /\ ShortcutRole(RoleNames(allRoles)))
       => \A k \in 1..Len(allRoles) :
            toLowerCase(allRoles[k].name) \in {owner, admin} => allRoles[k].tenantId = tenantId.n

\* C4: a failed persistence read ends in an internal error (500): the
\* continuation is never invoked as for an allowed request and the Deny
\* response is never produced
C4_FailureIsInternalError ==
  failed =>
    /\ ~Allowed
    /\ outcome.kind = "res" => outcome = Respond(500, "Internal server error (RBAC)")
    /\ Done => outcome.status = 500

C4_Witness ==
  mw = "db" /\ Done /\ failed /\ reads.rolePermission = 1 /\ outcome.status = 500

\* C5: without a principal rbac responds 401 and stops: no UserRole, Role or
\* RolePermission read is issued and the continuation is never invoked
C5_NoPrincipal ==
  (mw \in {"db", "perm", "static"} /\ ~req.user.present /\ pc # "start") =>
    /\ pc \in {"done", "end"}
    /\ outcome.kind = "res"
    /\ outcome.status = 401
    /\ reads = NoReads

C5_Witness ==
  mw = "db" /\ ~req.user.present /\ Done /\ outcome.status = 401

\* the four checks as the requirement states them, names compared without
\* regard to letter case
C6_RoleCheck ==
  \E i \in 1..Len(opts.roles) : toLowerCase(opts.roles[i]) \in RoleNames(allRoles)

C6_PermCheck ==
  \E i \in 1..Len(opts.permissions) : toLowerCase(opts.permissions[i]) \in userPerms

C6_ListPasses(list) ==
  \E i \in 1..Len(list) : toLowerCase(list[i]) \in userPerms

C6_ResourceCheck ==
  /\ Truthy(req.resource)
  /\ \E i \in 1..Len(opts.resourcePermissions) :
       /\ toLowerCase(opts.resourcePermissions[i][1]) = toLowerCase(JsString(req.resource))
       /\ C6_ListPasses(opts.resourcePermissions[i][2])

C6_KeyIs(i, key) == toLowerCase(opts.actionPermissions[i][1]) = toLowerCase(key)

C6_ActionCheck ==
  LET exact == req.method \o colon \o req.baseUrl \o req.path
      base == req.method \o colon \o req.baseUrl
      n == Len(opts.actionPermissions)
  IN IF \E i \in 1..n : C6_KeyIs(i, exact)
     THEN \E i \in 1..n : C6_KeyIs(i, exact) /\ C6_ListPasses(opts.actionPermissions[i][2])
     ELSE \E i \in 1..n : C6_KeyIs(i, base) /\ C6_ListPasses(opts.actionPermissions[i][2])

\* C6: for an authenticated principal with a tenant and no shortcut role the
\* DB-backed rbac invokes the continuation exactly when the role check, the
\* permission check, the resource-scoped check or the action-scoped check
\* passes, and denies otherwise
C6_DecisionRule ==
  Aggregated =>
    /\ Allowed <=> (C6_RoleCheck \/ C6_PermCheck \/ C6_ResourceCheck \/ C6_ActionCheck)
    /\ ~Allowed => outcome = Respond(denyStatus(opts), denyMessage(opts))

\* C7: the parent-role reads of one decision never outnumber the roles
C7_FetchBound ==
  mw = "db" => reads.role <= Cardinality(DOMAIN roleTbl)

\* a decision that walked an assigned role whose parent chain is cyclic and
\* came to its end
C7_Witness ==
  /\ Aggregated
  /\ \E k \in 1..Len(allRoles) : ~Acyclic(roleTbl, allRoles[k].id)

\* C8: when the parent chain of an assigned role contains a cycle the
\* decision ends in the internal error (500), never in Allow or Deny
C8_CycleIsInternalError ==
  ( /\ mw = "db" /\ Done /\ reads.userRole = 1
    /\ \E k \in 1..Len(allRoles) : ~Acyclic(roleTbl, allRoles[k].id) )
  => outcome = Respond(500, "Internal server error (RBAC)")


\* the sources of a tenant as the resolver's contract names them: a source
\* yields when it holds a value the handler takes for a tenant
C9_ResolverYields == opts.resolver = "value" /\ Truthy(opts.resolved)

C9_ClaimYields == req.user.present /\ Truthy(req.user.tenantId)

C9_HeaderYields == req.header.own /\ trim(req.header.value) # <<>>

C9_Dots(s) == { i \in 1..Len(s) : s[i] = "." }

C9_HostYields == Truthy(req.hostname) /\ Cardinality(C9_Dots(req.hostname.s)) >= 2

C9_LeftmostLabel(s) ==
  SubSeq(s, 1, (CHOOSE i \in C9_Dots(s) : \A j \in C9_Dots(s) : i <= j) - 1)

C9_AnyYields ==
  C9_ResolverYields \/ C9_ClaimYields \/ C9_HeaderYields \/ C9_HostYields

C9_First ==
  IF C9_ResolverYields
  THEN [source |-> "custom", value |-> trim(JsString(opts.resolved))]
  ELSE IF C9_ClaimYields
  THEN [source |-> "jwt", value |-> trim(JsString(req.user.tenantId))]
  ELSE IF C9_HeaderYields
  THEN [source |-> "header", value |-> trim(req.header.value)]
  ELSE [source |-> "subdomain", value |-> trim(C9_LeftmostLabel(req.hostname.s))]

\* C9: tenantMiddleware takes the tenant from the first source that yields
\* one, in the order custom resolver, claim of the principal, x-tenant-id
\* header (trimmed), leftmost host label of a host with more than two labels;
\* a later source is never used when an earlier one yields
C9_FirstMatchWins ==
  (mw = "tenant" /\ Done /\ C9_AnyYields) =>
    IF Allowed
    THEN /\ tenantContext.set
         /\ tenantContext.source = C9_First.source
         /\ tenantContext.tenantId = C9_First.value
         /\ req.tenantId = Str(C9_First.value)
    ELSE ~tenantContext.set /\ req.tenantId = Undef

\* a request let through on the claim of its principal although its header
\* and its host name each name another tenant
C9_Witness ==
  /\ mw = "tenant" /\ Done /\ Allowed
  /\ ~C9_ResolverYields /\ C9_ClaimYields /\ C9_HeaderYields /\ C9_HostYields
  /\ trim(req.header.value) # trim(JsString(req.user.tenantId))
  /\ tenantContext.source = "jwt"

\* no source yields a tenant (and the custom resolver does not throw)
C10_NoSource == opts.resolver # "throws" /\ ~C9_AnyYields

\* C10: a request for which no source yields a tenant never proceeds:
\* tenantMiddleware answers 400 tenant-missing, invokes no continuation and
\* attaches no tenant id; rbac without a tenant on the request or the
\* principal answers 400 before any read
C10_MissingTenantFailsClosed ==
  /\ (mw = "tenant" /\ Done /\ C10_NoSource) =>
       /\ outcome = Respond(400, "Tenant context required.")
       /\ ~tenantContext.set
       /\ req.tenantId = Undef
  /\ ( /\ mw = "db" /\ pc # "start" /\ req.user.present
       /\ ~Truthy(req.tenantId) /\ ~Truthy(req.user.tenantId) ) =>
       /\ Done
       /\ outcome = Respond(400, "Bad request: tenantId required")
       /\ reads = NoReads


\* the x-tenant-id header names a reserved property once trimmed
C11_ReservedHeader == req.header.own /\ trim(req.header.value) \in ReservedNames

C11_Rejected ==
  /\ outcome = Respond(400, "Invalid tenant header.")
  /\ reads = NoReads
  /\ ~tenantContext.set
  /\ req.tenantId = Undef

\* C11: a request whose x-tenant-id header, once trimmed, is __proto__,
\* constructor or prototype is rejected with 400 before any role lookup and
\* its continuation is never invoked
C11_ReservedHeaderRejected ==
  (mw = "tenant" /\ Done /\ C11_ReservedHeader) => C11_Rejected

\* C11 as amended: the same of a request whose header is consulted, the
\* custom resolver (if any) neither throwing nor yielding a tenant and the
\* principal carrying no tenant claim
C11_ReservedHeaderRejectedWhenRead ==
  ( /\ mw = "tenant" /\ Done /\ C11_ReservedHeader
    /\ opts.resolver # "throws"
    /\ ~C9_ResolverYields /\ ~C9_ClaimYields ) => C11_Rejected

\* a request with a padded __proto__ header and a host naming a tenant,
\* turned away on its header
C11_Witness ==
  /\ mw = "tenant" /\ Done /\ C11_ReservedHeader
  /\ req.header.value # trim(req.header.value)
  /\ C9_HostYields
  /\ outcome = Respond(400, "Invalid tenant header.")
  /\ events = <<"TENANT_HEADER_INVALID">>

\* a tenant was resolved: some source yielded, nothing halted the handler
\* and the value is not blank
C12_Resolved ==
  /\ opts.resolver # "throws"
  /\ C9_AnyYields
  /\ ~(C9_First.source = "header" /\ C11_ReservedHeader)
  /\ C9_First.value # <<>>

C12_Listed ==
  \E i \in 1..Len(opts.allowedTenants) :
     JsString(opts.allowedTenants[i]) = C9_First.value

\* the super-tenant sentinel ('0000000000' or '1') with a principal whose
\* base role is owner
C12_Sentinel ==
  /\ C9_First.value \in {tenOwner, <<"1">>}
  /\ req.user.present /\ req.user.role = Str(owner)

\* C12: with allowedTenants configured a request whose resolved tenant is
\* not in the list is rejected with 403 and never continues, unless the
\* tenant is the super-tenant sentinel and the base role of the principal
\* is owner, in which case it continues
C12_AllowList ==
  (mw = "tenant" /\ Done /\ opts.restricted /\ C12_Resolved /\ ~C12_Listed) =>
    IF C12_Sentinel
    THEN Allowed /\ tenantContext.set /\ tenantContext.isOwner
    ELSE /\ outcome = Respond(403, "Tenant not allowed.")
         /\ ~tenantContext.set
         /\ req.tenantId = Undef

\* the sentinel presented by a principal who is not owner, and refused
C12_Witness ==
  /\ mw = "tenant" /\ Done /\ opts.restricted /\ C12_Resolved /\ ~C12_Listed
  /\ C9_First.value = tenOwner
  /\ req.user.present /\ req.user.role # Str(owner)
  /\ outcome.status = 403

\* C13: a request let through by an elevated bypass (the super-tenant/owner
\* cheat code of tenantMiddleware, the owner/admin shortcut of an rbac) has
\* emitted a log event for that use by the time it is let through
C13_BypassLogged ==
  /\ (mw = "tenant" /\ Done /\ Allowed /\ tenantContext.isOwner) =>
       Includes(events, <<"OWNER_CHEATCODE_USED">>)
  /\ (mw = "db" /\ Done /\ Allowed /\ reads.rolePermission = 0) => events # <<>>
  /\ (mw = "perm" /\ Done /\ Allowed /\ PermShortcut(req)) => events # <<>>

\* the protected operation has run to its end with an authorization outcome
C14_Decided ==
  /\ mw = "perm" /\ pc = "end"
  /\ outcome = Continue \/ outcome = Respond(403, "Forbidden: insufficient permissions")

\* C14: every protected operation leaves exactly one audit record, whether
\* it was allowed or denied
C14_OneAuditRecord == C14_Decided => Len(auditTbl) = 1

\* the AuditLog table is written only once the response has finished
C15_AfterResponse == auditTbl # <<>> => finished

\* the controller runs with the callback registered and nothing written
C15_NoWait == pc = "handler" => (listener /\ ~finished /\ auditTbl = <<>>)

\* C15: the audit record is written only after the response has finished,
\* the chain goes on to the controller without waiting for the write, and
\* the audit step, failing or not, leaves the response and the outcome of
\* the handlers as they were
C15_FireAndForget ==
  /\ [](C15_AfterResponse /\ C15_NoWait)
  /\ [][pc = "audit" => (response' = response /\ outcome' = outcome)]_vars

\* an operation answered 201 whose audit write failed
C15_Witness ==
  /\ mw = "perm" /\ pc = "end" /\ listener /\ finished
  /\ auditTbl = <<>>
  /\ response = Respond(201, "")

C16_SecretKeys == {"password", "token"}

C16_Clean(obj) == \A i \in 1..Len(obj) : obj[i][1] \notin C16_SecretKeys

\* C16: no audit record holds a password or token taken from the body,
\* params or query of the request
C16_NoSecretsRecorded ==
  \A i \in 1..Len(auditTbl) :
     /\ C16_Clean(auditTbl[i].details.body)
     /\ C16_Clean(auditTbl[i].details.params)
     /\ C16_Clean(auditTbl[i].details.query)

\* C17: a persistence failure during a decision reaches the error-reporting
\* sink, and the request leaves no entry in the audit log
C17_FailureReported ==
  (failed /\ pc \in {"done", "end"}) => (reported >= 1 /\ auditTbl = <<>>)

\* none of the four checks passes for the roles and permissions found
C18_NoCheckPasses ==
  ~(C6_RoleCheck \/ C6_PermCheck \/ C6_ResourceCheck \/ C6_ActionCheck)

\* C18: an ordinary Deny (principal authenticated, tenant present, no check
\* passing) answers with the status and message the caller configured, 403
\* and 'Forbidden: Insufficient role or permission' when none was, and does
\* not invoke the continuation
C18_DenyResponse ==
  (Aggregated /\ C18_NoCheckPasses) =>
    /\ ~Allowed
    /\ outcome.kind = "res"
    /\ outcome.status = (IF opts.given = {} THEN 403 ELSE opts.denyStatus)
    /\ outcome.message = (IF opts.given = {}
                          THEN "Forbidden: Insufficient role or permission"
                          ELSE opts.denyMessage)

\* a Deny answered with a status and a message of the caller's own
C18_Witness ==
  /\ Aggregated /\ C18_NoCheckPasses
  /\ opts.given # {}
  /\ outcome = Respond(404, "No access")

\* the second evaluation of a request ends as the first did, no read having
\* failed in either
C19_SameVerdict ==
  (mw = "db" /\ round = 2 /\ Done /\ ~failed /\ ~first.failed) =>
    outcome = first.outcome

\* C19: rbac put twice to the same principal, requirement and catalog gives
\* the same verdict both times, and no step of an evaluation changes a
\* stored Role, RolePermission or UserRole
C19_Idempotent ==
  /\ []C19_SameVerdict
  /\ [][/\ roleTbl' = roleTbl
        /\ rolePermTbl' = rolePermTbl
        /\ userRoleTbl' = userRoleTbl]_vars

\* a request allowed twice on an aggregated permission, its user frozen by
\* the first evaluation
C19_Witness ==
  /\ mw = "db" /\ round = 2 /\ Done /\ ~failed /\ ~first.failed
  /\ frozen
  /\ reads.rolePermission = 1
  /\ Allowed /\ first.outcome = Continue

\* C20: with an actionPermissions map, a request passes the action-scoped
\* check exactly when the principal holds a permission listed under the key
\* of its method and path or, no such key existing, under the key of its
\* method and base path
C20_ActionKeyLookup ==
  (Aggregated /\ opts.actionPermissions # <<>>) =>
    (hasActionPerm(opts, req, userPerms) <=> C6_ActionCheck)


\* C21: with freezeUser at its default (true) the principal has been frozen
\* whenever an rbac invokes the continuation
C21_FrozenOnAllow ==
  (mw \in {"db", "static"} /\ Done /\ Allowed /\ opts.freezeUser) => frozen

\* an assignment is in force at the time of the decision
C22_InForce(row) ==
  /\ (row.validFrom = 0 \/ row.validFrom <= Now)
  /\ (row.validTo = 0 \/ row.validTo >= Now)

\* the assignments the read of the request selects that are in force
C22_LiveAssignments ==
  LET rows == UserRolesWhere(userRoleTbl, req.user.id, tenantId.n, orgUnitId)
  IN SelectRows(rows, { rows[i].id : i \in { j \in 1..Len(rows) : C22_InForce(rows[j]) } })

\* one role and the parents the walk reaches from it
RECURSIVE C22_Chain(_, _, _)
C22_Chain(id, all, fuel) ==
  IF id = 0 \/ fuel = 0 THEN all
  ELSE LET c == collectRoleAndParents(FindRole(roleTbl, id), all)
       IN C22_Chain(c.fetch, c.all, fuel - 1)

\* the closure of a list of assignments
RECURSIVE C22_Closure(_, _)
C22_Closure(rows, all) ==
  IF rows = <<>> THEN all
  ELSE C22_Closure(Tail(rows), C22_Chain(Head(rows).roleId, all, MaxFetch + 1))

C22_LiveRoleIds == RoleIdsOf(C22_Closure(C22_LiveAssignments, <<>>))

\* C22: an assignment outside its validity window (validTo before the
\* decision or validFrom after it) contributes no role to the closure and no
\* permission to the decision
C22_RevokedContributesNothing ==
  (mw = "db" /\ req.user.present /\ tenantId.t = "num") =>
    /\ RoleIdsOf(allRoles) \subseteq C22_LiveRoleIds
    /\ userPerms \subseteq
         PermNames(RolePermsWhere(rolePermTbl, C22_LiveRoleIds, tenantId.n))

\* the verdict of one request evaluated with nothing beside it, computed in
\* one step from the catalog
C23_Alone(r, o) ==
  LET ten == DbTenantOf(r)
      org == IF r.orgUnitId # 0 THEN r.orgUnitId ELSE r.user.orgUnitId
      all == C22_Closure(UserRolesWhere(userRoleTbl, r.user.id, ten.n, org), <<>>)
      perms == PermNames(RolePermsWhere(rolePermTbl, RoleIdsOf(all), ten.n))
  IN IF Unauthenticated(r) THEN Respond(401, "Unauthorized: User not authenticated")
     ELSE IF ~Truthy(ten) THEN Respond(400, "Bad request: tenantId required")
     ELSE IF ShortcutRole(RoleNames(all)) THEN Continue
     ELSE IF DbAllowed(o, r, RoleNames(all), perms) THEN Continue
     ELSE Respond(denyStatus(o), denyMessage(o))

\* C23: in every interleaving of rbac evaluations of different requests on
\* an unchanged catalog, each evaluation that completes its reads comes to
\* the verdict its request gets when evaluated alone
C23_NoInterference ==
  \A i \in DOMAIN evals :
    (evals[i].pc = "done" /\ ~evals[i].failed) =>
      evals[i].outcome = C23_Alone(evals[i].req, evals[i].opts)

\* both evaluations ran while the other was in flight, collected different
\* roles and came to different verdicts
C23_Witness ==
  /\ evals # <<>>
  /\ \A i \in EvalIds :
       evals[i].pc = "done" /\ ~evals[i].failed /\ evals[i].overlapped
  /\ evals[1].outcome.kind # evals[2].outcome.kind
  /\ evals[1].allRoles # <<>> /\ evals[2].allRoles # <<>>
  /\ evals[1].allRoles # evals[2].allRoles

\* C24: a sync request whose offlineIds are all synced for its tenant when it
\* arrives creates no Sale or InventoryHistory row and changes no quantity,
\* and when no persistence call fails it answers 200 with every item
\* reported as duplicate
C24_ReplayIsIdempotent ==
  \A p \in DOMAIN syncs :
    LET s == syncs[p]
    IN s.replay =>
         /\ s.created = 0
         /\ s.updates = 0
         /\ \A i \in 1..Len(s.results) : s.results[i].status = "duplicate"
         /\ (s.pc = "done" /\ ~s.faulted) =>
              s.status = 200 /\ Len(s.results) = Len(s.batch)

\* a sales batch and an inventory batch were synced, then sent again and
\* answered
C24_Witness ==
  \E p \in DOMAIN syncs, q \in DOMAIN syncs :
    /\ p # q
    /\ syncs[p].pc = "done" /\ syncs[p].created = Len(syncs[p].batch)
    /\ syncs[q].replay /\ syncs[q].pc = "done" /\ syncs[q].status = 200
    /\ Len(syncs[q].batch) = 2
    /\ syncs[q].kind = "inventory"

\* the results a request reports for one offlineId with a given status
C30_Reported(s, oid, st) ==
  { i \in 1..Len(s.results) :
      s.results[i].offlineId = oid /\ s.results[i].status = st }

C30_Carries(s, oid) == \E i \in 1..Len(s.batch) : s.batch[i].offlineId = oid

\* C30: of the syncSales requests of one tenant that carry the same
\* offlineId, whatever their interleaving, exactly one reports it synced,
\* every other reports it duplicate, and none answers with a server error
C30_ExactlyOneSyncs ==
  \A p \in DOMAIN syncs, q \in DOMAIN syncs, oid \in OfflineIds :
    ( /\ p # q
      /\ syncs[p].kind = "sales" /\ syncs[q].kind = "sales"
      /\ syncs[p].tenantId.t = "num" /\ syncs[p].tenantId = syncs[q].tenantId
      /\ C30_Carries(syncs[p], oid) /\ C30_Carries(syncs[q], oid)
      /\ syncs[p].pc = "done" /\ syncs[q].pc = "done"
      /\ ~syncs[p].faulted /\ ~syncs[q].faulted )
    => /\ syncs[p].status = 200 /\ syncs[q].status = 200
       /\ Cardinality(C30_Reported(syncs[p], oid, "synced")
                        \cup { i + 2 : i \in C30_Reported(syncs[q], oid, "synced") }) = 1
       /\ C30_Reported(syncs[p], oid, "synced") = {} =>
            C30_Reported(syncs[p], oid, "duplicate") # {}

\* the action and resource fixed for each notification
C25_Pair(fn) ==
  IF fn = "notifyLowStock" THEN <<"LOW_STOCK_ALERT", "inventory">>
  ELSE IF fn = "notifySuspiciousLogin" THEN <<"SUSPICIOUS_LOGIN", "auth">>
  ELSE IF fn = "notifyPaymentFailed" THEN <<"PAYMENT_FAILED", "payment">>
  ELSE IF fn = "notifyNewSale" THEN <<"NEW_SALE", "sales">>
  ELSE <<"NEW_CUSTOMER", "customer">>

\* C25: every notify call writes one user-action entry that carries the id
\* of the user the call names and the action/resource pair of its event
C25_NotifyRecordsAction ==
  /\ Len(auditFile) = Len(calls)
  /\ \A i \in 1..Len(calls) :
       /\ auditFile[i].userId = (IF calls[i].user.present THEN Num(calls[i].user.id) ELSE Undef)
       /\ <<auditFile[i].action, auditFile[i].resource>> = C25_Pair(calls[i].fn)

\* a suspicious login, a new sale and a failed payment have been notified,
\* each for a user, not all for the same one
C25_Witness ==
  /\ Len(calls) = MaxCalls
  /\ { calls[i].fn : i \in 1..Len(calls) } =
       {"notifySuspiciousLogin", "notifyNewSale", "notifyPaymentFailed"}
  /\ \A i \in 1..Len(calls) : calls[i].user.present
  /\ calls[1].user # calls[2].user

\* the roles the product routes are meant to let through
C26_MayWrite == {admin, manager, owner}

C26_MayView == C26_MayWrite \cup {cashier}

\* C26: on the static-RBAC product routes admin, manager and owner may
\* create, update and delete, these and cashier may view, and every other
\* role is denied
C26_ProductRoleTable ==
  (mw = "static" /\ req.baseUrl = apiProducts /\ Done) =>
    (Allowed <=>
       toLowerCase(req.user.role.s) \in
         (IF req.method = GET THEN C26_MayView ELSE C26_MayWrite))

\* the invocation of the middleware has returned or settled
C27_Ended ==
  /\ mw \in {"tenant", "static", "db", "perm"}
  /\ pc \in {"done", "error", "handler", "responded", "audit", "end"}

\* C27: every invocation of the four middlewares ends in exactly one
\* terminal outcome: one call of the continuation or one response, never
\* both, never neither, and none before it ends
C27_OneTerminalOutcome ==
  /\ nexts + sends <= 1
  /\ C27_Ended => nexts + sends = 1
  /\ C27_Ended => (nexts = 1 <=> outcome.kind \in {"next", "nextErr"})

\* the permission-name rbac has handed a failed read to the continuation,
\* its one terminal call
C27_Witness ==
  /\ mw = "perm" /\ pc = "error" /\ failed
  /\ nexts = 1 /\ sends = 0

\* the request came through the application pipeline with a valid token and
\* the rbac of the route has taken its tenant
C28_RbacHasTenant ==
  /\ mw = "db" /\ pc \notin {"idle", "start"}
  /\ req.authorization = "valid"
  /\ Truthy(req.user.tenantId)
  /\ Truthy(tenantId)

\* C28: for an authenticated request whose principal carries a tenant claim,
\* the tenant id attached to the request and the one rbac uses are the
\* claim, whatever header or host name the client sent
C28_TenantIsTheClaim ==
  C28_RbacHasTenant =>
    /\ JsString(req.tenantId) = JsString(req.user.tenantId)
    /\ JsString(tenantId) = JsString(req.user.tenantId)

\* C29: in every interleaving of logins for one account, once
\* MAX_FAILED_ATTEMPTS wrong passwords have been answered since the last
\* successful login the account is locked, and a login that arrives while the
\* account is locked and reads it before lockedUntil is answered 403
C29_LockoutHolds ==
  /\ tally.wrongs >= MAX_FAILED_ATTEMPTS => account.isLocked /\ account.lockedUntil # 0
  /\ \A p \in LoginIds :
       ( /\ logins[p].pc = "done" /\ ~logins[p].faulted
         /\ logins[p].lockedUntil > logins[p].readAt ) =>
         logins[p].status = 403

====
